---- MODULE Spec2Model ----
(***************************************************************************)
(* Model of the order-construction utilities of shopify-demo:              *)
(*   - the fulfillment-order lookup with retry (app package),              *)
(*   - the remote call sequences of the order-creating flows,              *)
(*   - the payload builders of the create_order / test_draft_order_tax     *)
(*     commands (discounts, tax lines, classification).                    *)
(* Amounts written as text are held in ten-thousandths of a dollar, the    *)
(* numbers computed from them as float64 values (sign, mantissa, exponent, *)
(* rounded to 53 bits, ties to even); durations are in microseconds.       *)
(***************************************************************************)
EXTENDS Integers, Sequences, FiniteSets, TLC

(***************************************************************************)
(* Bounds of the model                                                     *)
(***************************************************************************)
\* largest number of fulfillment-order records one query returns
MaxRecords == 1
\* largest number of entries in a userErrors collection
MaxUserErrors == 2
\* largest number of tax lines given to a flow
MaxTaxLines == 2
\* largest number of line items of an order
MaxItems == 2
\* largest number of discount applications of one line item
MaxDiscounts == 2
\* largest number of addresses of one customer
MaxAddresses == 2

(***************************************************************************)
(* Program constants                                                       *)
(***************************************************************************)
\* GetFulfillmentOrders: GetFulfillmentOrdersWithRetry(orderID, 5, 3*time.Second)
DefaultMaxRetries == 5
\* 3*time.Second, in microseconds
DefaultInitialDelay == 3000000
\* findCustomerFromAddress: customers(first: 50, ...)
SearchPageSize == 50
\* cmd/test_fulfillment_orders: maxRetries := 5
TestMaxRetries == 5
\* cmd/test_fulfillment_orders: time.Sleep(2 * time.Second), in microseconds
TestRetryDelay == 2000000

VARIABLES
    spec,       \* which part of the program this behaviour exercises
    env,        \* which of the two environment variables are set
    unset,      \* the run of cmd/unsetDefaultAddressById
    lkScript,   \* lookup: what the remote answers to the 1st, 2nd, ... query
    lkOut,      \* lookup: what GetFulfillmentOrders returned
    flow,       \* the function or command being run
    pc,         \* the remote call the flow is about to make
    inp,        \* the caller's input to the flow
    calls,      \* the remote calls sent so far, in order
    failures,   \* calls that met a transport failure or non-success status
    completeArg,\* paymentPending as sent with draftOrderComplete
    orderID,    \* OrderInfo.OrderID / the created order's id ("" if none)
    markedPaid, \* the mark-as-paid update was accepted
    lastOp,     \* the last mutation wrapper called and what it returned
    applied,    \* hybrid: <<item, discount>> pairs sent to the edit session
    editIdx,    \* hybrid: the line item the edit loop is at
    editLines,  \* hybrid: the number of line items the edit session listed
    reported,   \* the success line was printed
    sideErrors, \* the best-effort side steps that returned an error
    result,     \* "running", or how the flow ended: "ok" / "err"
    inputData,  \* builders: the order read from input.json
    payload,    \* builders: what the command transmitted for that order
    http,       \* clients: the HTTP request in flight and the client that sent it
    round,      \* test_fulfillment_orders: the lookups the command has made
    testRun,    \* test_fulfillment_orders: queries sent, last sleep, how it ended
    linked,     \* how the remote answered the draft's order lookup ("none": not asked)
    callerLineItems \* the caller's input.LineItems array: each item's TaxLines

lookupVars == <<lkScript, lkOut, round, testRun>>
flowVars == <<flow, pc, inp, calls, failures, completeArg, orderID, markedPaid,
              lastOp, applied, editIdx, editLines, reported, sideErrors, result,
              linked, callerLineItems>>
buildVars == <<inputData, payload>>
vars == <<spec, env, unset, lkScript, lkOut, flow, pc, inp, calls, failures, completeArg,
          orderID, markedPaid, lastOp, applied, editIdx, editLines, reported, result,
          inputData, payload, http, round, testRun, sideErrors, linked,
          callerLineItems>>

(***************************************************************************)
(* Fulfillment-order lookup                                                *)
(***************************************************************************)
\* Answers of the remote to one fulfillment-order query:
\*   "transport"  client.Do failed (connect, timeout)
\*   "status"     HTTP status other than 200
\*   "gqlerrors"  HTTP 200 with a GraphQL "errors" member
\*   "nodata"     no "data" object in the response
\*   "noorder"    data.order missing or null
\*   "nofield"    order present, "fulfillmentOrders" missing
\*   "noedges"    fulfillmentOrders present, "edges" missing
\*   "edges"      a well-formed answer with n fulfillment-order records
\* An answer is a record [kind, n]; n is 0 unless kind = "edges".
LookupFailures == {"transport", "status", "gqlerrors", "nodata", "noorder"}
LookupShapeless == {"nofield", "noedges"}
Answer(kind, n) == [kind |-> kind, n |-> n]
LookupAnswers ==
    {Answer(k, 0) : k \in LookupFailures \cup LookupShapeless}
        \cup {Answer("edges", n) : n \in 0..MaxRecords}

\* callAdminGraphQL: the transport, status and GraphQL-errors failures
callAdminGraphQLFails(kind) == kind \in {"transport", "status", "gqlerrors"}

\* variant: an answer without records counts as a failed attempt
getFulfillmentOrdersOnce_EmptyIsError(resp) ==
    IF resp.kind = "edges" /\ resp.n > 0
    THEN [err |-> FALSE, n |-> resp.n]
    ELSE [err |-> TRUE, n |-> 0]

\* getFulfillmentOrdersOnce: one query; err or the number of records parsed
getFulfillmentOrdersOnce(resp) ==
    IF callAdminGraphQLFails(resp.kind) THEN [err |-> TRUE, n |-> 0]
    ELSE IF resp.kind = "nodata" THEN [err |-> TRUE, n |-> 0]
    ELSE IF resp.kind = "noorder" THEN [err |-> TRUE, n |-> 0]
    ELSE IF resp.kind = "nofield" THEN [err |-> FALSE, n |-> 0]
    ELSE IF resp.kind = "noedges" THEN [err |-> FALSE, n |-> 0]
    ELSE [err |-> FALSE, n |-> resp.n]

\* delay = time.Duration(float64(delay) * 1.5)
NextDelay(delay) == (delay * 3) \div 2

\* GetFulfillmentOrdersWithRetry: the loop from iteration i on.  script[k] is
\* the remote's answer to the k-th query.  Returns the result together with
\* the number of queries sent and the sleeps taken.
RECURSIVE RetryLoop(_, _, _, _, _)
RetryLoop(script, i, maxRetries, delay, waits) ==
    IF i >= maxRetries
    THEN [err |-> TRUE, n |-> 0, attempts |-> i, waits |-> waits]
    ELSE LET r == getFulfillmentOrdersOnce(script[i + 1]) IN
         IF ~r.err
         THEN [err |-> FALSE, n |-> r.n, attempts |-> i + 1, waits |-> waits]
         ELSE IF i < maxRetries - 1
              THEN RetryLoop(script, i + 1, maxRetries, NextDelay(delay),
                             Append(waits, delay))
              ELSE RetryLoop(script, i + 1, maxRetries, delay, waits)

GetFulfillmentOrdersWithRetry(script, maxRetries, initialDelay) ==
    RetryLoop(script, 0, maxRetries, initialDelay, <<>>)

\* GetFulfillmentOrders
GetFulfillmentOrders(script) ==
    GetFulfillmentOrdersWithRetry(script, DefaultMaxRetries, DefaultInitialDelay)

Scripts == [1..DefaultMaxRetries -> LookupAnswers]

\* SHOPIFY_SHOP_DOMAIN and SHOPIFY_API_SECRET: set to a non-empty value or not
Environments == [shopDomain : BOOLEAN, accessToken : BOOLEAN]
ConfigSet == [shopDomain |-> TRUE, accessToken |-> TRUE]

\* the command has not been started
NoUnset == [pc |-> "none", given |-> [form |-> "numeric", num |-> 0],
            shop |-> <<>>, was |-> <<>>, customerID |-> 0, other |-> 0,
            mutations |-> <<>>, result |-> "none"]

\* variant: only the shop domain is looked at
MissingConfig_DomainOnly(e) == ~e.shopDomain

\* callAdminGraphQL, AddTaxToOrder and every other call site:
\* shopDomain == "" || accessToken == ""
MissingConfig(e) == ~e.shopDomain \/ ~e.accessToken

\* no HTTP request in flight
NoCall == [site |-> "none", state |-> "idle", timeout |-> 0, elapsed |-> 0,
           answerAt |-> 0]

NoLookup == [done |-> FALSE, err |-> FALSE, n |-> 0, attempts |-> 0, waits |-> <<>>,
             last |-> "none"]

\* the test command has sent no query, has not slept and has not ended
NoTestRun == [queries |-> 0, slept |-> 0, ended |-> "no"]

NoOp == [name |-> "none", kind |-> "none", userErrors |-> <<>>,
         err |-> FALSE, hasResult |-> FALSE, msg |-> <<>>]
NoInput == [paymentPending |-> FALSE, nTax |-> 0, note |-> FALSE,
            hasDiscount |-> FALSE, itemDiscounts |-> <<>>, itemTaxLines |-> <<>>]

\* the empty string
EmptyStr == [k |-> "empty", v |-> 0]
NoOrder == [items |-> <<>>, taxLines |-> <<>>, totalDiscounts |-> EmptyStr,
            subtotalPrice |-> EmptyStr, discounts |-> <<>>]
NoPayload == [path |-> "none", lineItems |-> <<>>, taxLines |-> <<>>,
              orderDiscount |-> <<>>]
BuildIdle == inputData = NoOrder /\ payload = NoPayload

FlowIdle ==
    /\ flow = "none" /\ pc = "done" /\ inp = NoInput
    /\ calls = <<>> /\ failures = {} /\ completeArg = "none"
    /\ orderID = "" /\ markedPaid = FALSE /\ lastOp = NoOp
    /\ applied = <<>> /\ editIdx = 0 /\ editLines = 0
    /\ reported = FALSE /\ sideErrors = {}
    /\ result = "running" /\ linked = "none"
    /\ callerLineItems = <<>>

InitLookup ==
    /\ spec = "lookup"
    /\ http = NoCall /\ env = ConfigSet /\ unset = NoUnset
    /\ lkScript \in Scripts
    /\ lkOut = NoLookup
    /\ round = 0 /\ testRun = NoTestRun
    /\ FlowIdle
    /\ BuildIdle

\* what one call of GetFulfillmentOrders returns when the remote answers its
\* queries by script
Returned(script, r) ==
    [done |-> TRUE, err |-> r.err, n |-> r.n, attempts |-> r.attempts,
     waits |-> r.waits, last |-> script[r.attempts].kind]

\* one call of GetFulfillmentOrders(orderID)
Lookup ==
    /\ spec = "lookup"
    /\ ~lkOut.done /\ round = 0
    /\ lkOut' = Returned(lkScript, GetFulfillmentOrders(lkScript))
    /\ UNCHANGED <<spec, env, unset, http, buildVars, lkScript, round, testRun>>
    /\ UNCHANGED flowVars

\* how main stands after the lookup of iteration i (from 0) returned r: it
\* returns when records were found, prints "FulfillmentOrders not found
\* after 5 retries." and returns when this was the last iteration, and goes
\* on otherwise, after an error as after an empty list
TestEnding(i, r) ==
    IF ~r.err /\ r.n > 0 THEN "found"
    ELSE IF i + 1 >= TestMaxRetries THEN "notfound"
    ELSE "no"

\* cmd/test_fulfillment_orders: the lookup of one iteration of main's loop, a
\* whole GetFulfillmentOrders call whose queries the remote answers one by
\* one, and what main does with its result
TestFulfillmentOrders ==
    /\ spec = "lookup"
    /\ round < TestMaxRetries
    /\ ~lkOut.done /\ testRun.ended = "no"
    /\ \E script \in (IF round = 0 THEN {lkScript} ELSE Scripts) :
        LET r == GetFulfillmentOrders(script) IN
        /\ lkScript' = script
        /\ lkOut' = Returned(script, r)
        /\ testRun' = [testRun EXCEPT !.queries = @ + r.attempts,
                                      !.ended = TestEnding(round, r)]
    /\ round' = round + 1
    /\ UNCHANGED <<spec, env, unset, http, buildVars>>
    /\ UNCHANGED flowVars

\* cmd/test_fulfillment_orders: the start of iteration i > 0: the results of
\* the iteration before are gone and main sleeps 2 seconds
TestRetryWait ==
    /\ spec = "lookup"
    /\ round \in 1..(TestMaxRetries - 1)
    /\ lkOut.done /\ testRun.ended = "no"
    /\ lkScript' = <<>>
    /\ lkOut' = NoLookup
    /\ testRun' = [testRun EXCEPT !.slept = TestRetryDelay]
    /\ UNCHANGED <<spec, env, unset, http, buildVars, round>>
    /\ UNCHANGED flowVars

NextLookup == Lookup \/ TestFulfillmentOrders \/ TestRetryWait

SpecLookup == InitLookup /\ [][NextLookup]_vars

(***************************************************************************)
(* Remote answers to mutations, and the wrappers that judge them           *)
(***************************************************************************)
UserErrorMessages == {"m1", "m2"}
UserErrorLists ==
    UNION {[1..n -> UserErrorMessages] : n \in 1..MaxUserErrors}

\* The answer to a GraphQL mutation: how the exchange ended, the member of
\* "data" that carries the payload (named after the mutation), and the
\* userErrors collection inside it.
MutationResponses(key) ==
    {[kind |-> k, key |-> key, userErrors |-> <<>>] :
        k \in {"ok", "transport", "status", "gqlerrors"}}
    \cup {[kind |-> "userErrors", key |-> key, userErrors |-> u] :
        u \in UserErrorLists}

\* json.Unmarshal into a response struct whose payload member is tagged
\* `field`: a member of another name leaves UserErrors empty
UnmarshalUserErrors(resp, field) ==
    IF resp.key = field THEN resp.userErrors ELSE <<>>

\* errorMsg := "User errors: "; errorMsg += "<field>: <message>; " for each
UserErrorsMessage(ues) == <<"User errors: ">> \o ues

\* the common body of the mutation wrappers: callAdminGraphQL, then the
\* userErrors check on the member tagged `field`
CheckMutation(resp, field) ==
    IF callAdminGraphQLFails(resp.kind)
    THEN [err |-> TRUE, hasResult |-> FALSE, msg |-> <<resp.kind>>]
    ELSE LET ues == UnmarshalUserErrors(resp, field) IN
         IF Len(ues) > 0
         THEN [err |-> TRUE, hasResult |-> FALSE, msg |-> UserErrorsMessage(ues)]
         ELSE [err |-> FALSE, hasResult |-> TRUE, msg |-> <<>>]

\* CreateDraftOrder: DraftOrderResponse, response.Data.DraftOrderCreate
CreateDraftOrder(resp) == CheckMutation(resp, "draftOrderCreate")
\* UpdateDraftOrder: parses into DraftOrderResponse too and reads
\* response.Data.DraftOrderCreate.UserErrors
UpdateDraftOrder(resp) == CheckMutation(resp, "draftOrderCreate")
\* CompleteDraftOrder, up to the userErrors check
CompleteDraftOrderMutation(resp) == CheckMutation(resp, "draftOrderComplete")
\* CreateOrderGraphQL: OrderResponse, response.Data.OrderCreate
CreateOrderGraphQL(resp) == CheckMutation(resp, "orderCreate")

Op(name, resp, r) ==
    [name |-> name, kind |-> resp.kind, userErrors |-> resp.userErrors,
     err |-> r.err, hasResult |-> r.hasResult, msg |-> r.msg]

(***************************************************************************)
(* Classification (create_order main)                                      *)
(***************************************************************************)
\* variant: an order with a discount goes to the GraphQL strategy whether or
\* not it has tax
Classify_DiscountFirst(hasTax, hasDiscount) ==
    IF hasDiscount THEN "GraphQL"
    ELSE IF hasTax THEN "REST"
    ELSE "DraftOrderFlow"

\* create_order main: the strategy, by hasTax and hasDiscount
Classify(hasTax, hasDiscount) ==
    IF hasTax /\ hasDiscount THEN "GraphQL"
    ELSE IF hasTax THEN "REST"
    ELSE "DraftOrderFlow"

(***************************************************************************)
(* Flows                                                                   *)
(***************************************************************************)
LibraryFlows == {"CreateOrderFromDraft", "CreateOrderFromDraftWithTaxAttempt",
                 "CreateOrderFromDraftWithTax"}
CommandFlows == {"DraftOrderCmd", "HybridCmd", "CreateOrderCmd"}
Flows == LibraryFlows \cup CommandFlows

\* input.LineItems[i].TaxLines as the caller of a library flow passes them:
\* 1..MaxItems line items without tax lines, or the last one with a tax line
\* of the caller's own
CallerTaxLineLists ==
    {[i \in 1..n |-> IF i = n THEN own ELSE <<>>] :
        n \in 1..MaxItems, own \in {<<>>, <<"own">>}}

\* the taxLines argument of a library flow
TaxLinesArgument == [k \in 1..inp.nTax |-> "tax"]

DiscountCounts == UNION {[1..n -> 0..MaxDiscounts] : n \in 1..MaxItems}

InputsOf(f) ==
    IF f = "CreateOrderFromDraft"
    THEN {[NoInput EXCEPT !.paymentPending = p, !.itemTaxLines = <<<<>>>>] :
            p \in BOOLEAN}
    ELSE IF f = "CreateOrderFromDraftWithTaxAttempt"
    THEN {[NoInput EXCEPT !.paymentPending = p, !.nTax = t, !.itemTaxLines = l] :
            p \in BOOLEAN, t \in 0..MaxTaxLines, l \in CallerTaxLineLists}
    ELSE IF f \in LibraryFlows
    THEN {[NoInput EXCEPT !.paymentPending = p, !.nTax = t,
                          !.itemTaxLines = <<<<>>>>] :
            p \in BOOLEAN, t \in 0..MaxTaxLines}
    ELSE IF f = "DraftOrderCmd"
    THEN {[NoInput EXCEPT !.nTax = t, !.note = n] :
            t \in 0..MaxTaxLines, n \in BOOLEAN}
    ELSE IF f = "HybridCmd"
    THEN {[NoInput EXCEPT !.nTax = t, !.itemDiscounts = d] :
            t \in 0..MaxTaxLines, d \in DiscountCounts}
    ELSE {[NoInput EXCEPT !.nTax = t, !.hasDiscount = d] :
            t \in 0..MaxTaxLines, d \in BOOLEAN}

FirstStep(f) ==
    IF f = "HybridCmd" THEN "orderCreateGraphQL"
    ELSE IF f = "CreateOrderCmd" THEN "classify"
    ELSE "draftCreate"

Init ==
    /\ spec = "flows"
    /\ http = NoCall /\ env = ConfigSet /\ unset = NoUnset
    /\ lkScript = <<>> /\ lkOut = NoLookup /\ round = 0
    /\ testRun = NoTestRun
    /\ flow \in Flows
    /\ inp \in InputsOf(flow)
    /\ pc = FirstStep(flow)
    /\ calls = <<>> /\ failures = {} /\ completeArg = "none"
    /\ orderID = "" /\ markedPaid = FALSE /\ lastOp = NoOp
    /\ applied = <<>> /\ editIdx = 0 /\ editLines = 0
    /\ reported = FALSE /\ sideErrors = {}
    /\ result = "running" /\ linked = "none"
    /\ callerLineItems = inp.itemTaxLines
    /\ BuildIdle

\* a call is put on the wire and its outcome noted
Send(op, kind) ==
    /\ calls' = Append(calls, op)
    /\ failures' = IF kind \in {"transport", "status"}
                   THEN failures \cup {op} ELSE failures

Finish(res) == pc' = "done" /\ result' = res
Goto(lbl) == pc' = lbl /\ result' = result

\* CreateOrderFromDraftWithTax: completeAsPending := shouldAddTax && !paymentPending
CompleteAsPending ==
    IF flow = "CreateOrderFromDraftWithTax"
    THEN inp.nTax > 0 /\ ~inp.paymentPending
    ELSE inp.paymentPending

\* where each caller of CreateDraftOrder goes next
AfterDraftCreate ==
    IF flow \in {"CreateOrderFromDraft", "CreateOrderCmd"} THEN "draftCalculate"
    ELSE IF flow = "CreateOrderFromDraftWithTaxAttempt"
    THEN (IF inp.nTax > 0 THEN "draftUpdate" ELSE "draftComplete")
    ELSE IF flow = "DraftOrderCmd"
    THEN (IF inp.note THEN "ensureDefinition" ELSE "draftComplete")
    ELSE "draftComplete"

\* variant: CreateOrderFromDraftWithTax completes the draft again when the
\* order id is not there yet
AfterComplete_CompleteAgain(oid) ==
    IF flow = "CreateOrderFromDraftWithTax"
    THEN (IF inp.nTax > 0 /\ oid # "" THEN "addTax"
          ELSE IF inp.nTax > 0 THEN "draftComplete"
          ELSE "return")
    ELSE IF flow = "DraftOrderCmd"
    THEN (IF inp.note /\ oid # "" THEN "addNote"
          ELSE IF inp.nTax > 0 /\ oid # "" THEN "addTax"
          ELSE "report")
    ELSE IF flow = "CreateOrderCmd" THEN "report"
    ELSE "return"

\* where each caller of CompleteDraftOrder goes once it returned OrderID oid
AfterComplete(oid) ==
    IF flow = "CreateOrderFromDraftWithTax"
    THEN (IF inp.nTax > 0 /\ oid # "" THEN "addTax" ELSE "return")
    ELSE IF flow = "DraftOrderCmd"
    THEN (IF inp.note /\ oid # "" THEN "addNote"
          ELSE IF inp.nTax > 0 /\ oid # "" THEN "addTax"
          ELSE "report")
    ELSE IF flow = "CreateOrderCmd" THEN "report"
    ELSE "return"

\* variant: CompleteDraftOrder returns the order without looking its
\* fulfillment orders up
AfterGetOrder_NoLookup(oid) ==
    AfterComplete(oid)

\* CompleteDraftOrder once getOrderFromDraft answered: the fulfillment orders
\* are looked up when the order id is there, else the draft's info is returned
AfterGetOrder(oid) ==
    IF oid # "" THEN "lookup" ELSE AfterComplete("")

ReturnTo(lbl) == IF lbl = "return" THEN Finish("ok") ELSE Goto(lbl)

\* where each caller of AddTaxToOrder goes next (both only log its error)
AfterAddTax ==
    IF flow = "CreateOrderFromDraftWithTax"
    THEN (IF CompleteAsPending /\ inp.paymentPending = FALSE
          THEN "markPaid" ELSE "return")
    ELSE "report"

GraphQLKinds == {"ok", "transport", "status", "gqlerrors", "userErrors"}

\* CreateDraftOrder, as called first by every draft-order flow
DraftCreate ==
    /\ spec = "flows" /\ pc = "draftCreate"
    /\ \E resp \in MutationResponses("draftOrderCreate") :
        LET r == CreateDraftOrder(resp) IN
        /\ Send("draftOrderCreate", resp.kind)
        /\ lastOp' = Op("CreateDraftOrder", resp, r)
        /\ IF r.err THEN Finish("err") ELSE Goto(AfterDraftCreate)
    /\ UNCHANGED <<spec, env, unset, http, buildVars, lookupVars, sideErrors, flow, inp, completeArg, orderID,
                   markedPaid, applied, editIdx, editLines, reported, linked,
                   callerLineItems>>

\* CreateOrderFromDraft step 2: CalculateDraftOrder, a failure is a warning
DraftCalculate ==
    /\ spec = "flows" /\ pc = "draftCalculate"
    /\ \E kind \in GraphQLKinds \cup {"missing"} :
        Send("draftOrderCalculate", kind)
    /\ Goto("draftComplete")
    /\ UNCHANGED <<spec, env, unset, http, buildVars, lookupVars, sideErrors, flow, inp, completeArg, orderID,
                   markedPaid, lastOp, applied, editIdx, editLines, reported, linked,
                   callerLineItems>>

\* CreateOrderFromDraftWithTaxAttempt step 2: updateInput := input shares the
\* caller's LineItems array, every element of which gets the taxLines argument
\* as its TaxLines; then UpdateDraftOrder, whose error is a warning
DraftUpdate ==
    /\ spec = "flows" /\ pc = "draftUpdate"
    /\ callerLineItems' = [i \in 1..Len(callerLineItems) |-> TaxLinesArgument]
    /\ \E resp \in MutationResponses("draftOrderUpdate") :
        /\ Send("draftOrderUpdate", resp.kind)
        /\ lastOp' = Op("UpdateDraftOrder", resp, UpdateDraftOrder(resp))
    /\ Goto("draftComplete")
    /\ UNCHANGED <<spec, env, unset, http, buildVars, lookupVars, sideErrors, flow, inp, completeArg, orderID,
                   markedPaid, applied, editIdx, editLines, reported, linked>>

\* create_order_using_draft_order step 4: EnsureShippingNoteMetafieldDefinition
EnsureDefinition ==
    /\ spec = "flows" /\ pc = "ensureDefinition"
    /\ \E kind \in GraphQLKinds : Send("metafieldDefinitionCreate", kind)
    /\ Goto("draftComplete")
    /\ UNCHANGED <<spec, env, unset, http, buildVars, lookupVars, sideErrors, flow, inp, completeArg, orderID,
                   markedPaid, lastOp, applied, editIdx, editLines, reported, linked,
                   callerLineItems>>

\* CompleteDraftOrder: the draftOrderComplete mutation
DraftComplete ==
    /\ spec = "flows" /\ pc = "draftComplete"
    /\ \E resp \in MutationResponses("draftOrderComplete") :
        LET r == CompleteDraftOrderMutation(resp) IN
        /\ Send("draftOrderComplete", resp.kind)
        /\ lastOp' = Op("CompleteDraftOrder", resp, r)
        /\ IF r.err THEN Finish("err") ELSE Goto("getOrder")
    /\ completeArg' = IF CompleteAsPending THEN "pending" ELSE "paid"
    /\ UNCHANGED <<spec, env, unset, http, buildVars, lookupVars, sideErrors, flow, inp, orderID, markedPaid, applied,
                   editIdx, editLines, reported, linked,
                   callerLineItems>>

\* variant: a draft without a linked order yields an order id all the same
getOrderFromDraft_AlwaysLinked(kind) ==
    IF kind \in {"ok", "noorder"} THEN [err |-> FALSE, id |-> "gid"]
    ELSE IF kind = "emptyid" THEN [err |-> FALSE, id |-> ""]
    ELSE [err |-> TRUE, id |-> ""]

\* getOrderFromDraft: the linked order's id, or an error when the call fails
\* or the answer lacks data, node or order; an order without an id gives ""
getOrderFromDraft(kind) ==
    IF kind = "ok" THEN [err |-> FALSE, id |-> "gid"]
    ELSE IF kind = "emptyid" THEN [err |-> FALSE, id |-> ""]
    ELSE [err |-> TRUE, id |-> ""]

\* getOrderFromDraft, and CompleteDraftOrder's fallback when it fails or
\* yields no id: the draft's info is returned with a nil error
GetOrderKinds == {"ok", "emptyid", "transport", "status", "gqlerrors",
                  "nodata", "nonode", "noorder"}
GetOrderFromDraft ==
    /\ spec = "flows" /\ pc = "getOrder"
    /\ \E kind \in GetOrderKinds :
        LET r == getOrderFromDraft(kind)
            oid == IF r.err THEN "" ELSE r.id IN
        /\ Send("draftOrderLookup", kind)
        /\ linked' = kind
        /\ orderID' = oid /\ ReturnTo(AfterGetOrder(oid))
    /\ UNCHANGED <<spec, env, unset, http, buildVars, lookupVars, sideErrors, flow, inp, completeArg, markedPaid,
                   lastOp, applied, editIdx, editLines, reported,
                   callerLineItems>>

\* CompleteDraftOrder: fulfillmentOrders, _ := GetFulfillmentOrders(orderID)
FulfillmentLookup ==
    /\ spec = "flows" /\ pc = "lookup"
    /\ \E script \in Scripts :
        LET r == GetFulfillmentOrders(script) IN
        /\ calls' = calls \o [k \in 1..r.attempts |-> "fulfillmentOrders"]
        /\ failures' =
             IF \E k \in 1..r.attempts : script[k].kind \in {"transport", "status"}
             THEN failures \cup {"fulfillmentOrders"} ELSE failures
        /\ lkOut' = Returned(script, r)
    /\ ReturnTo(AfterComplete(orderID))
    /\ UNCHANGED <<spec, env, unset, http, buildVars, lkScript, round, testRun, sideErrors,
                   flow, inp, completeArg,
                   orderID, markedPaid,
                   lastOp, applied, editIdx, editLines, reported, linked,
                   callerLineItems>>

\* AddTaxToOrder approach 1: PUT the tax lines at order level
AddTaxOrderLevel ==
    /\ spec = "flows" /\ pc = "addTax"
    /\ \E kind \in {"transport", "status", "accepted", "notaccepted"} :
        /\ Send("orderTaxUpdate", kind)
        /\ IF kind \in {"transport", "accepted"}
           THEN ReturnTo(AfterAddTax)
           ELSE Goto("addTaxFetch")
    /\ UNCHANGED <<spec, env, unset, http, buildVars, lookupVars, sideErrors, flow, inp, completeArg, orderID,
                   markedPaid, lastOp, applied, editIdx, editLines, reported, linked,
                   callerLineItems>>

\* AddTaxToOrder approach 2, first the GET of the order's line items. The
\* status of the answer is not read: only a transport failure or a body
\* without order.line_items ("badshape") ends the function; "status" is a
\* non-200 answer whose body carries the line items
AddTaxFetch ==
    /\ spec = "flows" /\ pc = "addTaxFetch"
    /\ \E kind \in {"ok", "transport", "status", "badshape"} :
        /\ Send("orderFetch", kind)
        /\ IF kind \in {"ok", "status"}
           THEN Goto("addTaxItems") ELSE ReturnTo(AfterAddTax)
    /\ UNCHANGED <<spec, env, unset, http, buildVars, lookupVars, sideErrors, flow, inp, completeArg, orderID,
                   markedPaid, lastOp, applied, editIdx, editLines, reported, linked,
                   callerLineItems>>

\* AddTaxToOrder approach 2: PUT the line items with their tax lines
AddTaxLineItems ==
    /\ spec = "flows" /\ pc = "addTaxItems"
    /\ \E kind \in {"transport", "status", "accepted", "notaccepted"} :
        Send("lineItemTaxUpdate", kind)
    /\ ReturnTo(AfterAddTax)
    /\ UNCHANGED <<spec, env, unset, http, buildVars, lookupVars, sideErrors, flow, inp, completeArg, orderID,
                   markedPaid, lastOp, applied, editIdx, editLines, reported, linked,
                   callerLineItems>>

\* MarkOrderAsPaid, and CreateOrderFromDraftWithTax returning its error
MarkOrderAsPaid ==
    /\ spec = "flows" /\ pc = "markPaid"
    /\ \E kind \in {"ok", "transport", "status"} :
        /\ Send("markAsPaid", kind)
        /\ markedPaid' = (kind = "ok")
        /\ Finish(IF kind = "ok" THEN "ok" ELSE "err")
    /\ UNCHANGED <<spec, env, unset, http, buildVars, lookupVars, sideErrors, flow, inp, completeArg, orderID, lastOp,
                   applied, editIdx, editLines, reported, linked,
                   callerLineItems>>

\* variant: an error of addShippingNoteMetafield ends the command
AddNote_Fatal ==
    /\ spec = "flows" /\ pc = "addNote"
    /\ \E kind \in GraphQLKinds \cup {"badshape"} :
        /\ Send("metafieldCreate", kind)
        /\ sideErrors' = IF kind = "ok" THEN sideErrors
                         ELSE sideErrors \cup {"metafieldCreate"}
        /\ IF kind = "ok"
           THEN Goto(IF inp.nTax > 0 /\ orderID # "" THEN "addTax" ELSE "report")
           ELSE Finish("err")
    /\ UNCHANGED <<spec, env, unset, http, buildVars, lookupVars, flow, inp, completeArg, orderID,
                   markedPaid, lastOp, applied, editIdx, editLines, reported, linked,
                   callerLineItems>>

\* create_order_using_draft_order step 6: addShippingNoteMetafield, which
\* returns an error on every answer but a metafieldCreate payload without
\* userErrors; main logs the error and goes on
AddNote ==
    /\ spec = "flows" /\ pc = "addNote"
    /\ \E kind \in GraphQLKinds \cup {"badshape"} :
        /\ Send("metafieldCreate", kind)
        /\ sideErrors' = IF kind = "ok" THEN sideErrors
                         ELSE sideErrors \cup {"metafieldCreate"}
    /\ Goto(IF inp.nTax > 0 /\ orderID # "" THEN "addTax" ELSE "report")
    /\ UNCHANGED <<spec, env, unset, http, buildVars, lookupVars, flow, inp, completeArg, orderID,
                   markedPaid, lastOp, applied, editIdx, editLines, reported, linked,
                   callerLineItems>>

\* the command prints its "Order created successfully" line
Report ==
    /\ spec = "flows" /\ pc = "report"
    /\ reported' = TRUE
    /\ IF flow = "DraftOrderCmd" /\ orderID # ""
       THEN Goto("queryDetails") ELSE Finish("ok")
    /\ UNCHANGED <<spec, env, unset, http, buildVars, lookupVars, sideErrors, flow, inp, calls, failures, completeArg,
                   orderID, markedPaid, lastOp, applied, editIdx, editLines, linked,
                   callerLineItems>>

\* queryOrderDetails: prints what it can, returns silently on an error
QueryOrderDetails ==
    /\ spec = "flows" /\ pc = "queryDetails"
    /\ \E kind \in {"ok", "transport", "status", "gqlerrors"} :
        Send("orderDetails", kind)
    /\ Finish("ok")
    /\ UNCHANGED <<spec, env, unset, http, buildVars, lookupVars, sideErrors, flow, inp, completeArg, orderID,
                   markedPaid, lastOp, applied, editIdx, editLines, reported, linked,
                   callerLineItems>>

\* create_order main: the strategy is chosen from hasTax and hasDiscount
ClassifyOrder ==
    /\ spec = "flows" /\ pc = "classify"
    /\ LET strategy == Classify(inp.nTax > 0, inp.hasDiscount) IN
       Goto(IF strategy = "GraphQL" THEN "orderCreateGraphQL"
            ELSE IF strategy = "REST" THEN "orderCreateREST"
            ELSE "draftCreate")
    /\ UNCHANGED <<spec, env, unset, http, buildVars, lookupVars, sideErrors, flow, inp, calls, failures, completeArg,
                   orderID, markedPaid, lastOp, applied, editIdx, editLines, reported, linked,
                   callerLineItems>>

\* hybrid: the first line item at or after i that the edit session lists
\* (the first n of them) and that carries a discount, else 0
NextDiscounted(i, n) ==
    LET s == {j \in i..Len(inp.itemDiscounts) :
                j <= n /\ inp.itemDiscounts[j] > 0} IN
    IF s = {} THEN 0 ELSE CHOOSE j \in s : \A k \in s : j <= k

\* where each caller of CreateOrderGraphQL goes next: the hybrid command
\* opens the edit session, create_order main is done
AfterOrderCreate ==
    IF flow = "HybridCmd" THEN "editBegin" ELSE "return"

\* the answers to the orderCreate mutation: those of every mutation, and an
\* answer of status 200 without errors, without userErrors and without an
\* order ("noorder"), which json.Unmarshal turns into an Order of empty ID
OrderCreateResponses ==
    MutationResponses("orderCreate")
        \cup {[kind |-> "noorder", key |-> "orderCreate", userErrors |-> <<>>]}

\* response.Data.OrderCreate.Order.ID of an answer CreateOrderGraphQL accepted
CreatedOrderID(resp) == IF resp.kind = "ok" THEN "gid" ELSE ""

\* CreateOrderGraphQL, called by create_order main (tax and discount) and by
\* the hybrid command (step 1); both stop on its error and print the id of
\* the order in the answer, which is empty when the answer has no order
OrderCreateGraphQL ==
    /\ spec = "flows" /\ pc = "orderCreateGraphQL"
    /\ \E resp \in OrderCreateResponses :
        /\ Send("orderCreate", resp.kind)
        /\ lastOp' = Op("CreateOrderGraphQL", resp, CreateOrderGraphQL(resp))
        /\ IF CreateOrderGraphQL(resp).err
           THEN Finish("err") /\ UNCHANGED <<orderID, reported>>
           ELSE /\ orderID' = CreatedOrderID(resp)
                /\ reported' = TRUE
                /\ ReturnTo(AfterOrderCreate)
    /\ UNCHANGED <<spec, env, unset, http, buildVars, lookupVars, sideErrors, flow, inp, completeArg, markedPaid,
                   applied, editIdx, editLines, linked,
                   callerLineItems>>

\* CreateOrderWithTax: what the POST of /orders.json can answer: an order with
\* an id ("ok"), an order object whose id is neither a number nor a text
\* ("noid"), a transport failure, a status other than 200 and 201, a body
\* with "errors", a body without an order
RestCreateKinds == {"ok", "noid", "transport", "status", "errors", "missing"}

\* CreateOrderWithTax: the order id of the response it returns without error,
\* empty when the order of the answer carries no id
RestOrderID(kind) == IF kind = "ok" THEN "gid" ELSE ""

\* CreateOrderWithTax (REST /orders.json), called by create_order main, which
\* prints the success line and the id of the response as it is
OrderCreateREST ==
    /\ spec = "flows" /\ pc = "orderCreateREST"
    /\ \E kind \in RestCreateKinds :
        /\ Send("orderCreateREST", kind)
        /\ IF kind \in {"ok", "noid"}
           THEN orderID' = RestOrderID(kind) /\ reported' = TRUE /\ Finish("ok")
           ELSE Finish("err") /\ UNCHANGED <<orderID, reported>>
    /\ UNCHANGED <<spec, env, unset, http, buildVars, lookupVars, sideErrors, flow, inp, completeArg, markedPaid,
                   lastOp, applied, editIdx, editLines, linked,
                   callerLineItems>>

\* hybrid step 2: OrderEditBegin; on an error the edit is skipped.  The
\* answer lists some line items, and the loop pairs them by position with
\* the input's items
EditBegin ==
    /\ spec = "flows" /\ pc = "editBegin"
    /\ \E kind \in GraphQLKinds :
        /\ Send("orderEditBegin", kind)
        /\ IF kind = "ok"
           THEN \E n \in 0..Len(inp.itemDiscounts) :
                  /\ editLines' = n
                  /\ editIdx' = NextDiscounted(1, n)
                  /\ Goto(IF NextDiscounted(1, n) # 0 THEN "editAddDiscount"
                          ELSE "editCommit")
           ELSE /\ editIdx' = editIdx /\ editLines' = editLines
                /\ Goto("restoreTax")
    /\ UNCHANGED <<spec, env, unset, http, buildVars, lookupVars, sideErrors, flow, inp, completeArg, orderID,
                   markedPaid, lastOp, applied, reported, linked,
                   callerLineItems>>

\* hybrid step 2, loop body: OrderEditAddLineItemDiscount for
\* item.DiscountApplications[0] of the item at editIdx
EditAddDiscount ==
    /\ spec = "flows" /\ pc = "editAddDiscount"
    /\ \E kind \in GraphQLKinds : Send("orderEditAddLineItemDiscount", kind)
    /\ applied' = Append(applied, <<editIdx, 1>>)
    /\ editIdx' = NextDiscounted(editIdx + 1, editLines)
    /\ Goto(IF NextDiscounted(editIdx + 1, editLines) # 0 THEN "editAddDiscount"
            ELSE "editCommit")
    /\ UNCHANGED <<spec, env, unset, http, buildVars, lookupVars, sideErrors, flow, inp, completeArg, orderID,
                   markedPaid, lastOp, editLines, reported, linked,
                   callerLineItems>>

\* hybrid step 2, end: OrderEditCommit
EditCommit ==
    /\ spec = "flows" /\ pc = "editCommit"
    /\ \E kind \in GraphQLKinds : Send("orderEditCommit", kind)
    /\ Goto("restoreTax")
    /\ UNCHANGED <<spec, env, unset, http, buildVars, lookupVars, sideErrors, flow, inp, completeArg, orderID,
                   markedPaid, lastOp, applied, editIdx, editLines, reported, linked,
                   callerLineItems>>

\* hybrid step 3: UpdateOrderTaxLinesREST with the used tax lines, whose
\* error main logs; step 4, queryOrderDetails, is run when orderID != ""
RestoreTax ==
    /\ spec = "flows" /\ pc = "restoreTax"
    /\ \E kind \in {"ok", "transport", "status"} :
        /\ Send("taxRestore", kind)
        /\ sideErrors' = IF kind = "ok" THEN sideErrors
                         ELSE sideErrors \cup {"taxRestore"}
    /\ IF orderID # "" THEN Goto("queryDetails") ELSE Finish("ok")
    /\ UNCHANGED <<spec, env, unset, http, buildVars, lookupVars, flow, inp, completeArg, orderID,
                   markedPaid, lastOp, applied, editIdx, editLines, reported, linked,
                   callerLineItems>>

Next ==
    \/ DraftCreate \/ DraftCalculate \/ DraftUpdate \/ EnsureDefinition
    \/ DraftComplete \/ GetOrderFromDraft \/ FulfillmentLookup
    \/ AddTaxOrderLevel \/ AddTaxFetch \/ AddTaxLineItems \/ MarkOrderAsPaid
    \/ AddNote \/ Report \/ QueryOrderDetails
    \/ ClassifyOrder \/ OrderCreateGraphQL \/ OrderCreateREST
    \/ EditBegin \/ EditAddDiscount \/ EditCommit \/ RestoreTax

Spec == Init /\ [][Next]_vars

(***************************************************************************)
(* Properties of the lookup and of the flows                               *)
(***************************************************************************)
Last(seq) == seq[Len(seq)]
Count(op) == Cardinality({k \in 1..Len(calls) : calls[k] = op})
Empty == Answer("edges", 0)
OneRecord == Answer("edges", 1)
FailedAnswer(a) == a.kind \in LookupFailures
\* an answer that carries no record and is no error
ZeroRecords(a) == a = Empty \/ a.kind \in LookupShapeless

\* C1 (as claimed): when attempts 1 to 4 would return zero records and
\* attempt 5 one record, the lookup returns that record after 4 waits.
C1_RetriesWhileEmpty ==
    (lkOut.done /\ lkScript = <<Empty, Empty, Empty, Empty, OneRecord>>)
        => (~lkOut.err /\ lkOut.n = 1 /\ Len(lkOut.waits) = 4)

\* C1 (amended): the lookup retries only while an attempt fails.  Four failed
\* attempts followed by one record give that record after the four waits
\* 3s, 4.5s, 6.75s, 10.125s; an attempt that returns zero records ends the
\* lookup at once, empty, without error and without a wait after it, be it
\* the first attempt or one that follows failed attempts.
C1_RetriesWhileFailing ==
    lkOut.done =>
        /\ ((\A k \in 1..4 : FailedAnswer(lkScript[k])) /\ lkScript[5] = OneRecord)
              => /\ ~lkOut.err /\ lkOut.n = 1 /\ lkOut.attempts = 5
                 /\ lkOut.waits = <<3000000, 4500000, 6750000, 10125000>>
        /\ (lkScript[1] = Empty)
              => /\ ~lkOut.err /\ lkOut.n = 0 /\ lkOut.attempts = 1
                 /\ lkOut.waits = <<>>
        /\ \A k \in 1..DefaultMaxRetries :
              ((\A j \in 1..(k - 1) : FailedAnswer(lkScript[j]))
                    /\ ZeroRecords(lkScript[k]))
              => /\ ~lkOut.err /\ lkOut.n = 0 /\ lkOut.attempts = k
                 /\ Len(lkOut.waits) = k - 1

C1_Witness ==
    /\ lkOut.done
    /\ \A k \in 1..4 : FailedAnswer(lkScript[k])
    /\ lkScript[5] = OneRecord
    /\ lkOut.n = 1 /\ Len(lkOut.waits) = 4

\* the calls of the best-effort side steps: the note (its definition and its
\* attachment) and the restoration of the tax lines
BestEffortOps == {"metafieldDefinitionCreate", "metafieldCreate", "taxRestore"}

\* C2: in every flow a transport failure or a non-success status of a remote
\* call other than a best-effort side step makes the command fail: a flow
\* that ends in success met no such failure.
C2_AnyFailureIsFatal ==
    result = "ok" => failures \subseteq BestEffortOps

TaxUpdateOps == {"orderTaxUpdate", "lineItemTaxUpdate"}
CountIn(ops) == Cardinality({k \in 1..Len(calls) : calls[k] \in ops})
OpsSent == {calls[k] : k \in 1..Len(calls)}

\* C3 (as claimed): draft create, draft complete, order create, tax update,
\* mark-as-paid and edit commit are each sent at most once.
C3_WritesSentOnce ==
    /\ Count("draftOrderCreate") <= 1
    /\ Count("draftOrderComplete") <= 1
    /\ CountIn({"orderCreate", "orderCreateREST"}) <= 1
    /\ CountIn(TaxUpdateOps) <= 1
    /\ Count("markAsPaid") <= 1
    /\ Count("orderEditCommit") <= 1

\* C3 (amended): draft create, draft complete, order create, mark-as-paid and
\* edit commit are each sent at most once; the tax update is sent at most
\* twice, once at order level and, only when that one was sent and not
\* accepted, once more at line-item level; no call but the fulfillment-order
\* lookup (at most 5 times) and the per-item edit discount is sent twice.
C3_WritesSentOnceButTaxFallback ==
    /\ \A op \in OpsSent \ {"fulfillmentOrders", "orderEditAddLineItemDiscount"} :
          Count(op) = 1
    /\ CountIn({"orderCreate", "orderCreateREST"}) <= 1
    /\ Count("fulfillmentOrders") <= DefaultMaxRetries
    /\ Count("orderEditAddLineItemDiscount") <= Len(inp.itemDiscounts)
    /\ \A k \in 1..Len(calls) : calls[k] = "lineItemTaxUpdate" =>
          (k > 2 /\ calls[k - 2] = "orderTaxUpdate" /\ calls[k - 1] = "orderFetch")

\* a run that looked the fulfillment orders up more than once and sent the
\* tax update twice, the second time after a fetch of the order that was
\* answered with a failing status
C3_Witness ==
    /\ Count("orderTaxUpdate") = 1 /\ Count("lineItemTaxUpdate") = 1
    /\ Count("fulfillmentOrders") > 1
    /\ "orderFetch" \in failures
    /\ calls[Len(calls) - 1] = "orderFetch" /\ Last(calls) = "lineItemTaxUpdate"

DraftFlows == LibraryFlows \cup {"DraftOrderCmd", "CreateOrderCmd"}
OrderPaid == completeArg = "paid" \/ markedPaid

\* C4: a draft-order flow that returned successfully left the order paid if
\* the caller did not ask for pending payment, and unpaid if the caller did.
C4_PaidUnlessPendingRequested ==
    (result = "ok" /\ flow \in DraftFlows /\ completeArg # "none")
        => (OrderPaid <=> ~inp.paymentPending)

\* C5: a mutation answered with HTTP success and a non-empty userErrors
\* collection makes its wrapper return an error and no result, the error
\* message holding every returned user-error message.
C5_UserErrorsAreErrors ==
    lastOp.kind = "userErrors" =>
        /\ lastOp.err /\ ~lastOp.hasResult
        /\ \A i \in 1..Len(lastOp.userErrors) :
              \E j \in 1..Len(lastOp.msg) : lastOp.msg[j] = lastOp.userErrors[i]
(***************************************************************************)
(* Input data (input.json) and the payload builders                        *)
(*                                                                         *)
(* A JSON string field is a record [k, v].  k = "empty" is "", k = "bad"   *)
(* is text that strconv.ParseFloat rejects.  The other kinds are decimal   *)
(* texts of the number v / Dollar (v in units of 1/10000): "num" is the    *)
(* text with two decimals, or more when the number has more ("8.50",       *)
(* "0.085", "0.125"); "plain" is the text without closing zeros of a       *)
(* number of less than two decimals ("0", "20", "1.5"); "fixed4" is the    *)
(* text with four decimals ("0.0850"); "negzero" and "negzero4" are        *)
(* "-0.00" and "-0.0000".  A float64 field of a payload is Float(x), a     *)
(* field left out of a payload is Absent.                                  *)
(* A title is the sequence of its parts, so that strings.Contains(title,   *)
(* marker) is the presence of the marker among the parts.                  *)
(***************************************************************************)
Dollar == 100 * 100
Cent == Dollar \div 100
Num(v) == [k |-> "num", v |-> v]
Money(dollars) == Num(dollars * Dollar)
Plain(v) == [k |-> "plain", v |-> v]
Fixed4(v) == [k |-> "fixed4", v |-> v]
NegZero == [k |-> "negzero", v |-> 0]
NegZero4 == [k |-> "negzero4", v |-> 0]
BadText == [k |-> "bad", v |-> 0]
Float(x) == [k |-> "float", v |-> x]
Absent == [k |-> "absent", v |-> 0]

\* the texts strconv.ParseFloat accepts
IsNumber(str) == str.k \in {"num", "plain", "fixed4", "negzero", "negzero4"}
(***************************************************************************)
(* float64                                                                 *)
(*                                                                         *)
(* The amounts of the commands are float64 values: strconv.ParseFloat,     *)
(* the operators + - * /, the comparisons with 0, math.Round and the       *)
(* "%.2f" and "%.4f" verbs of fmt.  A natural number of any size is the    *)
(* little-endian sequence of its limbs below Base, <<>> for zero.  A       *)
(* float64 is the record [neg, m, e] of value (-1)^neg * m * 2^e with m    *)
(* odd, or m zero and e 0; every operation rounds its exact result to 53   *)
(* bits, ties to even, as IEEE 754 does, one operation at a time (the      *)
(* amd64 build; a build that fuses x*y+z rounds once where this rounds     *)
(* twice).  Infinities, NaN and subnormal numbers are left out: the        *)
(* amounts are far from both ends of the exponent range, and no quotient   *)
(* is taken by zero.                                                       *)
(***************************************************************************)
LimbBits == 15
Base == 32768
MantissaBits == 53

Min(a, b) == IF a < b THEN a ELSE b
Max(a, b) == IF a > b THEN a ELSE b

\* the number of bits of n, for n below Base
BitLenSmall(n) ==
    CHOOSE k \in 0..LimbBits : n < 2 ^ k /\ (k = 0 \/ n >= 2 ^ (k - 1))

\* the number of low bits of n that are zero, for 0 < n < Base
TrailingZerosSmall(n) ==
    CHOOSE k \in 0..(LimbBits - 1) : n % 2 ^ (k + 1) = 2 ^ k

Limb(a, k) == IF k >= 1 /\ k <= Len(a) THEN a[k] ELSE 0

\* a without its leading zero limbs
BigNorm(a) ==
    SubSeq(a, 1, CHOOSE k \in 0..Len(a) :
                     (k = 0 \/ a[k] # 0) /\ \A j \in (k + 1)..Len(a) : a[j] = 0)

\* the limbs of n
BigOfNat(n) ==
    BigNorm(<<n % Base, (n \div Base) % Base, n \div (Base * Base)>>)

\* the number of limbs a, when it fits in three limbs
BigToNat(a) == Limb(a, 1) + Base * Limb(a, 2) + Base * Base * Limb(a, 3)

BigBitLen(a) ==
    IF a = <<>> THEN 0 ELSE LimbBits * (Len(a) - 1) + BitLenSmall(a[Len(a)])

BigIsOdd(a) == a # <<>> /\ a[1] % 2 = 1

\* 1, 0 or -1 as a is greater than, equal to or less than b
BigCmp(a, b) ==
    IF Len(a) > Len(b) THEN 1
    ELSE IF Len(a) < Len(b) THEN 0 - 1
    ELSE IF a = b THEN 0
    ELSE IF \E k \in 1..Len(a) :
                a[k] > b[k] /\ \A j \in (k + 1)..Len(a) : a[j] = b[j]
         THEN 1
    ELSE 0 - 1

\* limb k of a + b before the carries, and the carry into it: a limb takes a
\* carry when a limb below it overflows and every limb in between is full
LimbSum(a, b, k) == Limb(a, k) + Limb(b, k)
Carry(a, b, k) ==
    IF \E j \in 1..(k - 1) :
           LimbSum(a, b, j) >= Base
               /\ \A i \in (j + 1)..(k - 1) : LimbSum(a, b, i) = Base - 1
    THEN 1 ELSE 0

\* the low n limbs of a + b, for limbs below Base
SumLimbs(a, b, n) == [k \in 1..n |-> (LimbSum(a, b, k) + Carry(a, b, k)) % Base]

\* a + b
BigAdd(a, b) ==
    IF a = <<>> THEN b
    ELSE IF b = <<>> THEN a
    ELSE BigNorm(SumLimbs(a, b, Max(Len(a), Len(b)) + 1))

\* limb k of a - b before the borrows, and the borrow from it: a limb gives
\* a borrow when a limb below it falls short and every limb in between is
\* level
LimbDiff(a, b, k) == Limb(a, k) - Limb(b, k)
Borrow(a, b, k) ==
    IF \E j \in 1..(k - 1) :
           LimbDiff(a, b, j) < 0
               /\ \A i \in (j + 1)..(k - 1) : LimbDiff(a, b, i) = 0
    THEN 1 ELSE 0

\* a - b for a >= b
BigSub(a, b) ==
    IF b = <<>> \/ a = <<>> THEN a
    ELSE BigNorm([k \in 1..Len(a) |->
                     (LimbDiff(a, b, k) + Base - Borrow(a, b, k)) % Base])

\* a * d for d below Base: the low halves of the limb products plus their
\* high halves one limb up
BigMulSmall(a, d) ==
    IF a = <<>> \/ d = 0 THEN <<>>
    ELSE IF d = 1 THEN a
    ELSE BigNorm(SumLimbs([k \in 1..Len(a) |-> (a[k] * d) % Base],
                          [k \in 1..(Len(a) + 1) |->
                              IF k = 1 THEN 0 ELSE (a[k - 1] * d) \div Base],
                          Len(a) + 1))

\* a moved up by limbs limbs and bits bits: no limb overflows, the low part
\* of a limb is a multiple of 2^bits and the high part of the limb below is
\* less than 2^bits
ShiftedUp(a, limbs, bits) ==
    BigNorm([k \in 1..(Len(a) + limbs + 1) |->
                IF k <= limbs THEN 0
                ELSE ((Limb(a, k - limbs) * 2 ^ bits) % Base)
                         + ((Limb(a, k - limbs - 1) * 2 ^ bits) \div Base)])

\* a * 2^n
BigShl(a, n) ==
    IF a = <<>> \/ n = 0 THEN a ELSE ShiftedUp(a, n \div LimbBits, n % LimbBits)

\* a * b, one limb of b at a time from limb k on
RECURSIVE BigMulFrom(_, _, _, _)
BigMulFrom(a, b, k, sum) ==
    IF k > Len(b) THEN sum
    ELSE IF Len(sum) = 0 /\ k > 1 THEN <<>>
    ELSE BigMulFrom(a, b, k + 1,
                    BigAdd(sum, BigShl(BigMulSmall(a, b[k]), LimbBits * (k - 1))))

BigMul(a, b) == IF a = <<>> \/ b = <<>> THEN <<>> ELSE BigMulFrom(a, b, 1, <<>>)

\* a moved down by limbs limbs and bits bits
ShiftedDown(a, limbs, bits) ==
    IF limbs >= Len(a) THEN <<>>
    ELSE BigNorm([k \in 1..(Len(a) - limbs) |->
                     (a[k + limbs] \div 2 ^ bits)
                         + (Limb(a, k + limbs + 1) % 2 ^ bits) * 2 ^ (LimbBits - bits)])

\* floor(a / 2^n)
BigShr(a, n) == ShiftedDown(a, n \div LimbBits, n % LimbBits)

\* the largest q with q * b <= rem, for rem < b * Base and a b whose top
\* limb is Base / 2 or more: the estimate from the top limbs is at most 2
\* above it
Estimate(rem, b) ==
    Min((Limb(rem, Len(b) + 1) * Base + Limb(rem, Len(b))) \div b[Len(b)], Base - 1)
Largest(S) == CHOOSE q \in S : \A p \in S : p <= q
QuotientNear(rem, b, estimate) ==
    Largest({q \in Max(0, estimate - 2)..estimate :
                BigCmp(BigMulSmall(b, q), rem) <= 0})
QuotientLimb(rem, b) == QuotientNear(rem, b, Estimate(rem, b))

\* long division of a by b from limb k of a down, with the quotient limbs
\* found so far and the remainder carried down
RECURSIVE BigDivModFrom(_, _, _, _, _)
DivideLimb(a, b, k, q, rem, d) ==
    IF d = 0 THEN BigDivModFrom(a, b, k - 1, <<0>> \o q, rem)
    ELSE BigDivModFrom(a, b, k - 1, <<d>> \o q, BigSub(rem, BigMulSmall(b, d)))
BigDivModFrom(a, b, k, q, r) ==
    IF k = 0 THEN [q |-> BigNorm(q), exact |-> r = <<>>]
    ELSE IF r = <<>> /\ a[k] = 0 THEN BigDivModFrom(a, b, k - 1, <<0>> \o q, r)
    ELSE DivideLimb(a, b, k, q, BigNorm(<<a[k]>> \o r),
                    QuotientLimb(BigNorm(<<a[k]>> \o r), b))

\* the quotient of a by b > 0 and whether nothing is left, for a and b
\* scaled to bring the top limb of b to Base / 2 or more: the top limbs of
\* a that are fewer than the limbs of b start as the remainder
DivideScaled(scaled, divisor) ==
    IF Len(scaled) < Len(divisor) THEN [q |-> <<>>, exact |-> scaled = <<>>]
    ELSE BigDivModFrom(scaled, divisor, Len(scaled) - Len(divisor) + 1, <<>>,
                       SubSeq(scaled, Len(scaled) - Len(divisor) + 2, Len(scaled)))

\* the quotient of a by b > 0 and whether nothing is left
BigDivMod(a, b) ==
    IF a = <<>> THEN [q |-> <<>>, exact |-> TRUE]
    ELSE DivideScaled(BigShl(a, LimbBits - BitLenSmall(b[Len(b)])),
                      BigShl(b, LimbBits - BitLenSmall(b[Len(b)])))

\* the number of low bits of a > 0 that are zero
LowLimb(a) == CHOOSE k \in 1..Len(a) : a[k] # 0 /\ \A j \in 1..(k - 1) : a[j] = 0
TrailingZerosAt(a, low) == LimbBits * (low - 1) + TrailingZerosSmall(a[low])
BigTrailingZeros(a) == TrailingZerosAt(a, LowLimb(a))

\* how the low n bits of a compare with half of 2^n (n > 0): 1, 0 or -1
AgainstHalfAt(a, limb, bit) ==
    IF (Limb(a, limb) \div 2 ^ bit) % 2 = 0 THEN 0 - 1
    ELSE IF Limb(a, limb) % 2 ^ bit # 0 \/ \E j \in 1..(limb - 1) : Limb(a, j) # 0
         THEN 1
    ELSE 0
LowBitsAgainstHalf(a, n) ==
    AgainstHalfAt(a, (n - 1) \div LimbBits + 1, (n - 1) % LimbBits)

\* q, or q + 1 when what was cut off (c against a half) rounds it up: a tie
\* goes away from zero (awayTies) or to the even neighbour
RoundedUp(q, c, awayTies) ==
    IF c > 0 \/ (c = 0 /\ (awayTies \/ BigIsOdd(q))) THEN BigAdd(q, <<1>>) ELSE q

\* n / 2^r to the nearest integer, for r > 0
ShiftRounded(n, r, awayTies) ==
    RoundedUp(BigShr(n, r), LowBitsAgainstHalf(n, r), awayTies)

\* the float64 of value m * 2^e, for m of at most 53 bits
CanonAt(neg, m, e, tz) == [neg |-> neg, m |-> BigShr(m, tz), e |-> e + tz]
Canon(neg, m, e) ==
    IF m = <<>> THEN [neg |-> neg, m |-> <<>>, e |-> 0]
    ELSE CanonAt(neg, m, e, BigTrailingZeros(m))

\* the float64 nearest to n * 2^e, ties to even; r is the number of bits of
\* n beyond the mantissa
RoundBigBy(neg, n, e, r) ==
    IF r <= 0 THEN Canon(neg, n, e) ELSE Canon(neg, ShiftRounded(n, r, FALSE), e + r)
RoundBig(neg, n, e) ==
    IF n = <<>> THEN [neg |-> neg, m |-> <<>>, e |-> 0]
    ELSE RoundBigBy(neg, n, e, BigBitLen(n) - MantissaBits)

FZero == [neg |-> FALSE, m |-> <<>>, e |-> 0]
FIsZero(x) == x.m = <<>>
FNeg(x) == [neg |-> ~x.neg, m |-> x.m, e |-> x.e]
\* float64(n) of an integer
FOfInt(n) == Canon(n < 0, BigOfNat(IF n < 0 THEN 0 - n ELSE n), 0)

\* x > 0, x < 0
FPositive(x) == ~x.neg /\ x.m # <<>>
FNegative(x) == x.neg /\ x.m # <<>>

\* a * 2^e with the sign xneg plus b * 2^e with the sign yneg, for a, b > 0
AddAligned(xneg, a, yneg, b, e) ==
    IF xneg = yneg THEN RoundBig(xneg, BigAdd(a, b), e)
    ELSE IF a = b THEN FZero
    ELSE IF BigCmp(a, b) > 0 THEN RoundBig(xneg, BigSub(a, b), e)
    ELSE RoundBig(yneg, BigSub(b, a), e)
AddAt(x, y, e) == AddAligned(x.neg, BigShl(x.m, x.e - e), y.neg, BigShl(y.m, y.e - e), e)

\* x + y
FAdd(x, y) ==
    IF x.m = <<>> THEN (IF y.m = <<>> THEN [FZero EXCEPT !.neg = x.neg /\ y.neg] ELSE y)
    ELSE IF y.m = <<>> THEN x
    ELSE AddAt(x, y, Min(x.e, y.e))

\* x - y
FSub(x, y) == FAdd(x, FNeg(y))

\* x * y
FMul(x, y) ==
    IF x.m = <<>> \/ y.m = <<>> THEN [FZero EXCEPT !.neg = (x.neg # y.neg)]
    ELSE RoundBig(x.neg # y.neg, BigMul(x.m, y.m), x.e + y.e)

\* x / y for y # 0: the quotient is taken to 55 bits or more and a last bit
\* tells whether anything is left below it
RoundQuotient(neg, d, e) ==
    IF d.exact THEN RoundBig(neg, d.q, e)
    ELSE RoundBig(neg, BigAdd(BigShl(d.q, 1), <<1>>), e - 1)
DivideAt(x, y, k) ==
    RoundQuotient(x.neg # y.neg, BigDivMod(BigShl(x.m, k), y.m), x.e - y.e - k)
FDiv(x, y) ==
    IF x.m = <<>> THEN [FZero EXCEPT !.neg = (x.neg # y.neg)]
    ELSE IF BigBitLen(y.m) + MantissaBits + 2 <= BigBitLen(x.m) THEN DivideAt(x, y, 0)
    ELSE DivideAt(x, y, MantissaBits + 2 + BigBitLen(y.m) - BigBitLen(x.m))

\* the integer nearest to n * 2^e
IntegerAt(n, e, awayTies) ==
    IF e >= 0 THEN BigShl(n, e) ELSE ShiftRounded(n, 0 - e, awayTies)

\* the integer nearest to |x| * scale for a small scale; ties go away from
\* zero (awayTies) or to the even neighbour
NearestInteger(x, scale, awayTies) ==
    IF x.m = <<>> THEN <<>> ELSE IntegerAt(BigMulSmall(x.m, scale), x.e, awayTies)

\* math.Round(x): to the nearest integer, a half away from zero
FRound(x) == Canon(x.neg, NearestInteger(x, 1, TRUE), 0)

(***************************************************************************)
(* Orders the builders are exercised on                                    *)
(***************************************************************************)
\* "SALE", 20 percent
Sale20 == [title |-> <<"SALE">>, valueType |-> "percentage",
           value |-> Plain(20 * Dollar), amount |-> EmptyStr]
Vip150 == [title |-> <<"VIP">>, valueType |-> "fixed_amount",
           value |-> Money(150), amount |-> Money(150)]
\* "Original Price <s>100</s>"
OriginalPriceLabel == [title |-> <<"Original Price", " ", "<s>", "100", "</s>">>,
                       valueType |-> "percentage", value |-> Plain(50 * Dollar),
                       amount |-> EmptyStr]
\* "<s>130.00</s>"
Strikethrough30 == [title |-> <<"<s>", "130.00", "</s>">>,
                    valueType |-> "fixed_amount", value |-> Money(30),
                    amount |-> Money(30)]
DiscountChoices == {Sale20, Vip150, OriginalPriceLabel, Strikethrough30}

SeqsUpTo(S, n) == UNION {[1..m -> S] : m \in 0..n}

ItemChoices ==
    [price : {EmptyStr, Money(100)},
     originPrice : {EmptyStr, Money(120)},
     totalDiscount : {EmptyStr, Num(0), Money(10)},
     totalTax : {EmptyStr},
     priceExTax : {EmptyStr},
     quantity : {1},
     discounts : SeqsUpTo(DiscountChoices, MaxDiscounts)]

\* 8.5 % VAT of 8.50, in use; 5 % GST of 5.00, not in use
VatUsed == [title |-> "VAT", rate |-> Num(850), price |-> Num(85000),
            isUsed |-> TRUE]
GstUnused == [title |-> "GST", rate |-> Num(500), price |-> Money(5),
              isUsed |-> FALSE]

\* the order without its items and tax lines
OrderHeads ==
    [totalDiscounts : {EmptyStr, Num(0), Money(20)},
     subtotalPrice : {EmptyStr, Num(0), Money(100), Money(30)},
     discounts : {<<>>, <<Sale20>>, <<Vip150, Sale20>>}]

\* "FIVE", 5 percent; "ODD", a fixed amount of 1.005
Five == [title |-> <<"FIVE">>, valueType |-> "percentage",
         value |-> Plain(5 * Dollar), amount |-> EmptyStr]
Odd1005 == [title |-> <<"ODD">>, valueType |-> "fixed_amount",
            value |-> Num(10050), amount |-> Num(10050)]

\* items whose amounts fall on or next to a half cent: 0.50 with 5 % off is
\* 0.475, a total discount of 0.125, a price of 1.005
HalfCentItemChoices ==
    [price : {Num(50 * Cent), Num(10050)},
     originPrice : {EmptyStr},
     totalDiscount : {EmptyStr, Num(1250)},
     totalTax : {EmptyStr},
     priceExTax : {EmptyStr},
     quantity : {1},
     discounts : {<<>>, <<Five>>, <<Odd1005>>}]

\* a total discount written "0", and one of 0.09 on a subtotal of 1.60
HalfCentOrderHeads ==
    [totalDiscounts : {Plain(0), Num(9 * Cent)},
     subtotalPrice : {EmptyStr, Num(160 * Cent)},
     discounts : {<<>>, <<Odd1005>>}]

OrdersOver(items, taxLineLists, heads) ==
    {[items |-> <<item>>, taxLines |-> taxLines,
      totalDiscounts |-> head.totalDiscounts,
      subtotalPrice |-> head.subtotalPrice,
      discounts |-> head.discounts] :
        item \in items, taxLines \in taxLineLists, head \in heads}

Orders ==
    OrdersOver(ItemChoices, SeqsUpTo({VatUsed, GstUnused}, MaxTaxLines), OrderHeads)
    \cup OrdersOver(HalfCentItemChoices, {<<>>, <<VatUsed>>}, HalfCentOrderHeads)

(***************************************************************************)
(* Orders of several line items, for the distribution of tax               *)
(***************************************************************************)
\* largest number of line items a tax line is distributed over
MaxTaxItems == 5

TaxItemChoices ==
    [price : {Num(0), Money(1), Money(3)},
     originPrice : {EmptyStr},
     totalDiscount : {EmptyStr},
     totalTax : {EmptyStr},
     priceExTax : {EmptyStr},
     quantity : {1, 2},
     discounts : {<<>>}]

\* tax lines of 0.02, 1.00 (in use) and 0.50 (not in use)
TaxLineChoices ==
    {[title |-> "VAT", rate |-> Num(850), price |-> Num(2 * Cent), isUsed |-> TRUE],
     [title |-> "GST", rate |-> Num(500), price |-> Money(1), isUsed |-> TRUE],
     [title |-> "PST", rate |-> Num(700), price |-> Num(50 * Cent), isUsed |-> FALSE]}

\* items of negative price, of a price below a cent's precision, without a
\* price, and of 0.05 and 0.15
OddTaxItemChoices ==
    [price : {Num(0 - Dollar), Num(1250), Money(1), Money(3), Num(5 * Cent),
              Num(15 * Cent), EmptyStr},
     originPrice : {EmptyStr},
     totalDiscount : {EmptyStr},
     totalTax : {EmptyStr},
     priceExTax : {EmptyStr},
     quantity : {1},
     discounts : {<<>>}]

\* tax lines of 0.02, 0.25, -1.00, and one whose rate and price are not
\* numbers
OddTaxLineChoices ==
    {[title |-> "VAT", rate |-> Num(850), price |-> Num(2 * Cent), isUsed |-> TRUE],
     [title |-> "GST", rate |-> Num(500), price |-> Num(25 * Cent), isUsed |-> TRUE],
     [title |-> "RET", rate |-> Num(0 - 500), price |-> Num(0 - Dollar), isUsed |-> TRUE],
     [title |-> "N/A", rate |-> BadText, price |-> EmptyStr, isUsed |-> TRUE]}

\* largest number of line items of an order of odd items
MaxOddItems == 2

TaxOrdersOver(items, maxItems, taxLineChoices, maxTaxLines) ==
    [items : UNION {[1..n -> items] : n \in 1..maxItems},
     taxLines : UNION {[1..n -> taxLineChoices] : n \in 1..maxTaxLines},
     totalDiscounts : {EmptyStr},
     subtotalPrice : {EmptyStr},
     discounts : {<<>>}]

TaxOrders ==
    TaxOrdersOver(TaxItemChoices, MaxTaxItems, TaxLineChoices, MaxTaxLines)
    \cup TaxOrdersOver(OddTaxItemChoices, MaxOddItems, OddTaxLineChoices, 1)

\* the set S with its elements listed one by one: a function over a listed
\* set is kept as a table of its values
Listed(S) == {x : x \in S}

\* every item, order head and tax line of the orders above
AllItemChoices ==
    Listed(ItemChoices \cup HalfCentItemChoices \cup TaxItemChoices
               \cup OddTaxItemChoices)
AllOrderHeads == Listed(OrderHeads \cup HalfCentOrderHeads)
AllTaxLineChoices ==
    {VatUsed, GstUnused} \cup TaxLineChoices \cup OddTaxLineChoices

\* the value of a table at an argument, or the value computed directly when
\* the table does not hold the argument
Known(table, arg, direct) == IF arg \in DOMAIN table THEN table[arg] ELSE direct

(***************************************************************************)
(* Conversions between texts and float64                                   *)
(***************************************************************************)
\* the float64 nearest to v / Dollar: what strconv.ParseFloat gives for the
\* decimal text of the number
FOfDecimal(v) == FDiv(FOfInt(v), FOfInt(Dollar))

\* strconv.ParseFloat(str, 64): the nearest float64 and no error, or 0 and
\* an error
ParseFloat(str) ==
    IF ~IsNumber(str) THEN [ok |-> FALSE, v |-> FZero]
    ELSE IF str.k \in {"negzero", "negzero4"} THEN [ok |-> TRUE, v |-> FNeg(FZero)]
    ELSE [ok |-> TRUE, v |-> FOfDecimal(str.v)]

\* parsePrice: ("", or unparseable) -> (0, false)
parsePrice(str) ==
    IF str.k = "empty" THEN [ok |-> FALSE, v |-> FZero] ELSE ParseFloat(str)

\* value, _ := strconv.ParseFloat(s, 64)
ParseFloatOrZero(str) == ParseFloat(str).v

\* the rates and prices of the tax lines above, parsed once
ParsedTaxTexts ==
    [str \in UNION {{tl.rate, tl.price} : tl \in AllTaxLineChoices} |-> ParseFloat(str)]

\* strconv.ParseFloat of the rate or the price of a tax line
ParseTaxText(str) == Known(ParsedTaxTexts, str, ParseFloat(str))

\* math.Round(x*100) / 100
RoundToCent(x) == FDiv(FRound(FMul(x, FOfInt(100))), FOfInt(100))

\* the text of the number n / 10^decimals with its sign: "-" is kept on a
\* negative that rounds to zero
Written(neg, n, decimals) ==
    IF neg /\ n = 0 THEN (IF decimals = 2 THEN NegZero ELSE NegZero4)
    ELSE [k |-> IF decimals = 2 THEN "num" ELSE "fixed4",
          v |-> (IF neg THEN 0 - n ELSE n) * (IF decimals = 2 THEN Cent ELSE 1)]

\* the decimal text of x with the given number of decimals, 2 or 4, as the
\* %.2f and %.4f verbs write it: the exact binary value of x rounded to the
\* nearest, ties to even
Sprintf(x, decimals) ==
    Written(x.neg,
            BigToNat(NearestInteger(x, IF decimals = 2 THEN 100 ELSE Dollar, FALSE)),
            decimals)

\* fmt.Sprintf("%.2f", x)
Sprintf2(x) == Sprintf(x, 2)

\* fmt.Sprintf("%.4f", x)
Sprintf4(x) == Sprintf(x, 4)

Abs(x) == IF x < 0 THEN 0 - x ELSE x

(***************************************************************************)
(* The payload builders                                                    *)
(*                                                                         *)
(* What a builder computes for one line item, for the head of an order or  *)
(* for one tax amount is computed once for the values of the orders above  *)
(* and kept in a table, read through Known.                                *)
(***************************************************************************)
\* the head of an order
HeadOf(order) ==
    [totalDiscounts |-> order.totalDiscounts,
     subtotalPrice |-> order.subtotalPrice,
     discounts |-> order.discounts]

\* (part / whole) * 100, and math.Round(percentage*100) / 100 of it
PercentageOf(part, whole) == FMul(FDiv(part, whole), FOfInt(100))
RoundedPercentageOf(part, whole) == RoundToCent(PercentageOf(part, whole))

\* strings.Contains(title, "Original Price") || Contains(title, "<s>") ||
\* Contains(title, "</s>")
Contains(title, marker) == \E k \in 1..Len(title) : title[k] = marker
IsMetadataTitle(title) ==
    Contains(title, "Original Price") \/ Contains(title, "<s>")
        \/ Contains(title, "</s>")

NoDiscount == <<>>

\* the original price of an item whose price parses to price: the origin
\* price takes its place when the price is 0 and an origin price is given
OriginalPriceFrom(price, originPrice) ==
    IF FIsZero(price) /\ originPrice.k # "empty" THEN parsePrice(originPrice).v
    ELSE price

\* buildOrderInputForGraphQL: originalPrice of an item
GraphQLOriginalPrice(item) ==
    OriginalPriceFrom(parsePrice(item.price).v, item.originPrice)

\* buildOrderInputForGraphQL: discountAmount of one discount that is not
\* skipped, against the current price
GraphQLDiscountAmount(d, currentPrice) ==
    IF d.valueType = "percentage"
    THEN FDiv(FMul(currentPrice, ParseFloatOrZero(d.value)), FOfInt(100))
    ELSE IF d.valueType = "fixed_amount" THEN parsePrice(d.amount).v
    ELSE FZero

\* buildOrderInputForGraphQL: the discount note of one discount that is not
\* skipped
GraphQLDiscountNote(d) ==
    IF d.valueType = "percentage"
    THEN <<[kind |-> "percent", value |-> d.value, title |-> d.title]>>
    ELSE IF d.valueType = "fixed_amount"
    THEN <<[kind |-> "amount", value |-> d.amount, title |-> d.title]>>
    ELSE <<>>

RECURSIVE ApplyDiscounts(_, _, _, _)
\* variant: every discount from index i on is computed against the price
\* at index i, not against the price the earlier ones left
ApplyDiscounts_FromOriginal(discounts, i, currentPrice, notes) ==
    IF i > Len(discounts) THEN [price |-> currentPrice, notes |-> notes]
    ELSE LET d == discounts[i]
             skipped == IsMetadataTitle(d.title)
             amount == IF skipped THEN FZero
                       ELSE GraphQLDiscountAmount(d, currentPrice)
             note == IF skipped THEN <<>> ELSE GraphQLDiscountNote(d)
             rest == ApplyDiscounts(discounts, i + 1, currentPrice, notes \o note)
         IN [price |-> FSub(rest.price, amount), notes |-> rest.notes]

\* buildOrderInputForGraphQL: the loop over item.DiscountApplications from
\* index i on; returns the price left and the discount notes
ApplyDiscounts(discounts, i, currentPrice, notes) ==
    IF i > Len(discounts) THEN [price |-> currentPrice, notes |-> notes]
    ELSE IF IsMetadataTitle(discounts[i].title)
    THEN ApplyDiscounts(discounts, i + 1, currentPrice, notes)
    ELSE ApplyDiscounts(discounts, i + 1,
             FSub(currentPrice, GraphQLDiscountAmount(discounts[i], currentPrice)),
             notes \o GraphQLDiscountNote(discounts[i]))

\* buildOrderInputForGraphQL: the price left of the original price and the
\* discount notes of an item
GraphQLDiscounted(item, originalPrice) ==
    IF Len(item.discounts) > 0
    THEN ApplyDiscounts(item.discounts, 1, originalPrice, <<>>)
    ELSE IF item.totalDiscount.k # "empty"
    THEN [price |-> FSub(originalPrice, parsePrice(item.totalDiscount).v),
          notes |-> <<[kind |-> "amount", value |-> item.totalDiscount,
                       title |-> <<>>]>>]
    ELSE [price |-> originalPrice, notes |-> <<>>]

\* buildOrderInputForGraphQL: the line item sent for an item, from its
\* original price and what the discounts left
GraphQLLineItemOf(item, originalPrice, discounted) ==
    [quantity |-> item.quantity,
     price |-> Sprintf2(discounted.price),
     originalPriceProperty |->
         IF Len(discounted.notes) > 0 THEN Sprintf2(originalPrice) ELSE EmptyStr,
     discountNotes |-> discounted.notes,
     discount |-> NoDiscount,
     taxLines |-> <<>>]

GraphQLLineItemAt(item, originalPrice) ==
    GraphQLLineItemOf(item, originalPrice, GraphQLDiscounted(item, originalPrice))

\* buildOrderInputForGraphQL: one line item
GraphQLLineItem(item) == GraphQLLineItemAt(item, GraphQLOriginalPrice(item))

GraphQLLineItems == [item \in AllItemChoices |-> GraphQLLineItem(item)]

\* the order-level tax lines as copied by buildOrderInputFromInput and
\* buildOrderInputForGraphQL: title, rate and amount as they are written
ConvertTaxLines(taxLines) ==
    [k \in 1..Len(taxLines) |->
        [title |-> taxLines[k].title, rate |-> taxLines[k].rate,
         price |-> taxLines[k].price]]

\* buildOrderInputForGraphQL: the order-level discountCode
GraphQLDiscountCode(order) ==
    IF Len(order.discounts) > 0
    THEN IF order.discounts[1].valueType = "percentage"
         THEN <<[valueType |-> "PERCENTAGE",
                 value |-> Float(ParseFloatOrZero(order.discounts[1].value)),
                 title |-> order.discounts[1].title]>>
         ELSE IF order.discounts[1].valueType = "fixed_amount"
         THEN <<[valueType |-> "FIXED_AMOUNT",
                 value |-> Sprintf2(parsePrice(order.discounts[1].amount).v),
                 title |-> order.discounts[1].title]>>
         ELSE <<>>
    ELSE IF order.totalDiscounts.k # "empty"
    THEN <<[valueType |-> "FIXED_AMOUNT",
            value |-> Sprintf2(parsePrice(order.totalDiscounts).v),
            title |-> <<"Order Discount">>]>>
    ELSE <<>>

GraphQLDiscountCodes == [head \in AllOrderHeads |-> GraphQLDiscountCode(head)]

buildOrderInputForGraphQL(order) ==
    [path |-> "GraphQL",
     lineItems |-> [k \in 1..Len(order.items) |->
                      Known(GraphQLLineItems, order.items[k],
                            GraphQLLineItem(order.items[k]))],
     taxLines |-> ConvertTaxLines(order.taxLines),
     orderDiscount |-> Known(GraphQLDiscountCodes, HeadOf(order),
                             GraphQLDiscountCode(order))]

\* buildDraftOrderFromInput: the AppliedDiscount built from the first
\* discount application (order level and item level share the code); the
\* amount of a fixed discount is rounded when it is a number and left at 0
\* when it is not, which is the 0 parsePrice gives, rounded
AppliedDiscountOf(d) ==
    [valueType |-> IF d.valueType = "percentage" THEN "PERCENTAGE" ELSE "FIXED_AMOUNT",
     value |-> Float(RoundToCent(IF d.valueType = "percentage"
                                 THEN ParseFloatOrZero(d.value)
                                 ELSE parsePrice(d.amount).v)),
     title |-> d.title]

\* buildDraftOrderFromInput: one line item, from its price, origin price
\* and total discount as parsed; price is OriginalUnitPrice
DraftLineItemOf(item, price, originPrice, totalDiscount) ==
    [quantity |-> item.quantity,
     price |-> IF price.ok THEN Float(price.v)
               ELSE IF item.originPrice.k # "empty" /\ originPrice.ok
               THEN Float(originPrice.v) ELSE Float(FZero),
     originalPriceProperty |-> EmptyStr,
     discountNotes |-> <<>>,
     discount |->
         IF Len(item.discounts) > 0
         THEN <<AppliedDiscountOf(item.discounts[1])>>
         ELSE IF item.totalDiscount.k # "empty" /\ totalDiscount.ok
         THEN IF price.ok /\ FPositive(price.v)
              THEN <<[valueType |-> "PERCENTAGE",
                      value |-> Float(PercentageOf(totalDiscount.v, price.v)),
                      title |-> <<"Item Discount">>]>>
              ELSE <<[valueType |-> "FIXED_AMOUNT",
                      value |-> Float(totalDiscount.v),
                      title |-> <<"Item Discount">>]>>
         ELSE NoDiscount,
     taxLines |-> <<>>]

\* buildDraftOrderFromInput: one line item
DraftLineItem(item) ==
    DraftLineItemOf(item, parsePrice(item.price), parsePrice(item.originPrice),
                    parsePrice(item.totalDiscount))

DraftLineItems == [item \in AllItemChoices |-> DraftLineItem(item)]

\* buildDraftOrderFromInput: the order-level AppliedDiscount, from the total
\* discount and the subtotal as parsed
DraftOrderDiscountOf(order, totalDiscount, subtotal) ==
    IF Len(order.discounts) > 0
    THEN <<AppliedDiscountOf(order.discounts[1])>>
    ELSE IF order.totalDiscounts.k # "empty" /\ totalDiscount.ok
    THEN IF subtotal.ok /\ FPositive(subtotal.v)
         THEN <<[valueType |-> "PERCENTAGE",
                 value |-> Float(RoundedPercentageOf(totalDiscount.v, subtotal.v)),
                 title |-> <<"Order Discount">>]>>
         ELSE <<[valueType |-> "FIXED_AMOUNT",
                 value |-> Float(RoundToCent(totalDiscount.v)),
                 title |-> <<"Order Discount">>]>>
    ELSE <<>>

\* buildDraftOrderFromInput: the order-level AppliedDiscount
DraftOrderDiscount(order) ==
    DraftOrderDiscountOf(order, parsePrice(order.totalDiscounts),
                         parsePrice(order.subtotalPrice))

DraftOrderDiscounts == [head \in AllOrderHeads |-> DraftOrderDiscount(head)]

buildDraftOrderFromInput(order) ==
    [path |-> "DraftOrderFlow",
     lineItems |-> [k \in 1..Len(order.items) |->
                      Known(DraftLineItems, order.items[k],
                            DraftLineItem(order.items[k]))],
     taxLines |-> <<>>,
     orderDiscount |-> Known(DraftOrderDiscounts, HeadOf(order),
                             DraftOrderDiscount(order))]

\* buildOrderInputFromInput: the amount of the discount allocation made from
\* a discount application
RestDiscountAmount(d, originalPrice) ==
    IF d.amount.k # "empty" THEN d.amount
    ELSE IF d.valueType = "percentage"
    THEN Sprintf2(FDiv(FMul(originalPrice, ParseFloatOrZero(d.value)), FOfInt(100)))
    ELSE IF d.valueType = "fixed_amount" THEN d.value
    ELSE EmptyStr

\* the allocation of an amount, none when the amount is empty
RestAllocation(amount, title) ==
    IF amount.k # "empty" THEN <<[amount |-> amount, title |-> title]>> ELSE <<>>

\* buildOrderInputFromInput: one line item at its original price, with its
\* discount allocation
RestLineItemAt(item, originalPrice) ==
    [quantity |-> item.quantity,
     price |-> Sprintf2(originalPrice),
     discountAllocations |->
         IF Len(item.discounts) > 0
         THEN RestAllocation(RestDiscountAmount(item.discounts[1], originalPrice),
                             item.discounts[1].title)
         ELSE RestAllocation(item.totalDiscount, <<"Item Discount">>)]

\* buildOrderInputFromInput: one line item
RestLineItem(item) == RestLineItemAt(item, parsePrice(item.price).v)

RestLineItems == [item \in AllItemChoices |-> RestLineItem(item)]

buildOrderInputFromInput(order) ==
    [lineItems |-> [k \in 1..Len(order.items) |->
                      Known(RestLineItems, order.items[k], RestLineItem(order.items[k]))],
     taxLines |-> ConvertTaxLines(order.taxLines)]

\* CreateOrderWithTax: the body posted to /orders.json; a line item carries
\* its quantity and price only, the tax lines are those of the input
CreateOrderWithTaxPayload(input) ==
    [path |-> "REST",
     lineItems |-> [k \in 1..Len(input.lineItems) |->
                      [quantity |-> input.lineItems[k].quantity,
                       price |-> input.lineItems[k].price,
                       originalPriceProperty |-> EmptyStr,
                       discountNotes |-> <<>>,
                       discount |-> NoDiscount,
                       taxLines |-> <<>>]],
     taxLines |-> input.taxLines,
     orderDiscount |-> <<>>]

\* buildOrderInputWithOriginalPrice: itemPriceExTax from the price without
\* tax, the price and the tax of the item as parsed: the price without tax
\* times the quantity, or the price less the tax times the quantity, or the
\* price times the quantity; left at 0, without a product, when the item has
\* no price
ItemPriceExTaxOf(priceExTax, price, totalTax, quantity) ==
    IF priceExTax.ok THEN FMul(priceExTax.v, FOfInt(quantity))
    ELSE IF price.ok
    THEN IF totalTax.ok THEN FMul(FSub(price.v, totalTax.v), FOfInt(quantity))
         ELSE FMul(price.v, FOfInt(quantity))
    ELSE FZero

\* buildOrderInputWithOriginalPrice: itemPriceExTax of an item
ItemPriceExTax(item) ==
    ItemPriceExTaxOf(parsePrice(item.priceExTax), parsePrice(item.price),
                     parsePrice(item.totalTax), item.quantity)

ItemPricesExTax == [item \in AllItemChoices |-> ItemPriceExTax(item)]

\* AddTaxToOrder: the product p * qty of a price as parsed; 0 when the price
\* is not a number
PriceTimes(p, quantity) == IF p.ok THEN FMul(p.v, FOfInt(quantity)) ELSE FZero

\* AddTaxToOrder: lineItemPrice of a line item of the fetched order, its
\* price times its quantity
LineItemPrice(lineItem) == PriceTimes(ParseFloat(lineItem.price), lineItem.quantity)

\* the line item of the order created from an item of the input, as the GET
\* of the order returns it
Fetched(item) == [price |-> item.price, quantity |-> item.quantity]

LineItemPrices ==
    [lineItem \in {Fetched(item) : item \in AllItemChoices} |-> LineItemPrice(lineItem)]

\* the sums of up to n of the terms, added one by one to 0
RECURSIVE SumsUpTo(_, _)
WithOneMore(sums, terms) == sums \cup {FAdd(s, t) : s \in sums, t \in terms}
SumsUpTo(terms, n) ==
    IF n = 0 THEN {FZero} ELSE WithOneMore(SumsUpTo(terms, n - 1), terms)

\* the prices without tax of the items
PricesOf(items) == {ItemPriceExTax(item) : item \in items}

\* a sum of up to n of the prices, and a price to add to it
SumPairs(prices, n) == SumsUpTo(prices, n) \X prices

\* total += term, for the sums met on the orders of several items
Sums ==
    [p \in Listed(SumPairs(PricesOf(TaxItemChoices), MaxTaxItems - 1)
                  \cup SumPairs(PricesOf(OddTaxItemChoices), MaxOddItems - 1))
        |-> FAdd(p[1], p[2])]

Plus(total, term) == Known(Sums, <<total, term>>, FAdd(total, term))

\* the loop `for ... { total += terms[k] }` from index k on
RECURSIVE SumFrom(_, _, _)
SumFrom(terms, k, total) ==
    IF k > Len(terms) THEN total
    ELSE SumFrom(terms, k + 1, Plus(total, terms[k]))

\* buildOrderInputWithOriginalPrice: itemPriceExTax of every item
ItemPricesOf(order) ==
    [k \in 1..Len(order.items) |->
        Known(ItemPricesExTax, order.items[k], ItemPriceExTax(order.items[k]))]

\* buildOrderInputWithOriginalPrice: totalPriceExTax
TotalPriceExTax(order) == SumFrom(ItemPricesOf(order), 1, FZero)

UsedTaxLines(taxLines) == SelectSeq(taxLines, LAMBDA tl : tl.isUsed)

\* buildOrderInputWithOriginalPrice: fmt.Sprintf("%.4f", taxRate) of the rate
\* of a tax line
TaxRateText(rate) == Sprintf4(ParseFloatOrZero(rate))

TaxRateTexts == [rate \in {tl.rate : tl \in AllTaxLineChoices} |-> TaxRateText(rate)]

\* buildOrderInputWithOriginalPrice: the amount written on the tax line of
\* an item, from itemProportion := itemPriceExTax / totalPriceExTax and
\* itemTaxAmount := orderTaxPrice * itemProportion
ItemTaxAmount(orderTaxPrice, itemPriceExTax, totalPriceExTax) ==
    Sprintf2(RoundToCent(FMul(orderTaxPrice, FDiv(itemPriceExTax, totalPriceExTax))))

\* AddTaxToOrder: lineItemTax := (lineItemPrice / totalPrice) * totalTax,
\* whether it is above 0, and the amount written when it is
TaxWritten(lineItemTax) ==
    [positive |-> FPositive(lineItemTax), price |-> Sprintf2(lineItemTax)]
LineItemTax(totalTax, lineItemPrice, totalPrice) ==
    TaxWritten(FMul(FDiv(lineItemPrice, totalPrice), totalTax))

\* an amount of tax, a price and a positive sum of up to n of the prices
Shares(taxLines, prices, n) ==
    {parsePrice(tl.price).v : tl \in taxLines}
        \X prices \X {s \in SumsUpTo(prices, n) : FPositive(s)}

\* the amount of a tax line, the price of a line item and the positive total
\* of the prices, for the orders above
TaxShares ==
    Listed(Shares(TaxLineChoices, PricesOf(TaxItemChoices), MaxTaxItems)
           \cup Shares(OddTaxLineChoices, PricesOf(OddTaxItemChoices), MaxOddItems)
           \cup Shares({VatUsed, GstUnused},
                       PricesOf(ItemChoices \cup HalfCentItemChoices), 1))

ItemTaxAmounts == [t \in TaxShares |-> ItemTaxAmount(t[1], t[2], t[3])]

LineItemTaxes == [t \in TaxShares |-> LineItemTax(t[1], t[2], t[3])]

\* buildOrderInputWithOriginalPrice: the tax line of an item made from a tax
\* line of the order whose amount parses to orderTaxPrice
ItemTaxLine(tl, orderTaxPrice, itemPriceExTax, totalPriceExTax) ==
    [title |-> tl.title,
     rate |-> Known(TaxRateTexts, tl.rate, TaxRateText(tl.rate)),
     price |-> Known(ItemTaxAmounts, <<orderTaxPrice, itemPriceExTax, totalPriceExTax>>,
                     ItemTaxAmount(orderTaxPrice, itemPriceExTax, totalPriceExTax))]

\* the tax lines of an item made from the tax lines in use
ItemTaxLinesOf(used, itemPriceExTax, totalPriceExTax) ==
    [k \in 1..Len(used) |->
        ItemTaxLine(used[k], ParseTaxText(used[k].price).v,
                    itemPriceExTax, totalPriceExTax)]

\* variant: without a positive total every used tax line goes whole to the
\* line item
HybridItemTaxLines_WholeWhenZero(taxLines, itemPriceExTax, totalPriceExTax) ==
    LET used == UsedTaxLines(taxLines) IN
    IF Len(taxLines) > 0
    THEN IF FPositive(totalPriceExTax)
         THEN ItemTaxLinesOf(used, itemPriceExTax, totalPriceExTax)
         ELSE [k \in 1..Len(used) |->
                  [title |-> used[k].title,
                   rate |-> TaxRateText(used[k].rate),
                   price |-> Sprintf2(parsePrice(used[k].price).v)]]
    ELSE <<>>

\* buildOrderInputWithOriginalPrice: the tax lines of one line item
HybridItemTaxLines(taxLines, itemPriceExTax, totalPriceExTax) ==
    IF Len(taxLines) > 0 /\ FPositive(totalPriceExTax)
    THEN ItemTaxLinesOf(UsedTaxLines(taxLines), itemPriceExTax, totalPriceExTax)
    ELSE <<>>

\* buildOrderInputWithOriginalPrice: the price of one line item, its
\* original price, from the origin price and the price as parsed
HybridPriceOf(item, originPrice, price) ==
    IF item.originPrice.k # "empty"
    THEN IF originPrice.ok THEN Sprintf2(originPrice.v) ELSE Absent
    ELSE IF price.ok THEN Sprintf2(price.v) ELSE Absent

HybridPrice(item) ==
    HybridPriceOf(item, parsePrice(item.originPrice), parsePrice(item.price))

HybridPrices == [item \in AllItemChoices |-> HybridPrice(item)]

\* buildOrderInputWithOriginalPrice: one line item, from itemPriceExTax and
\* totalPriceExTax
HybridLineItem(order, item, itemPriceExTax, totalPriceExTax) ==
    [quantity |-> item.quantity,
     price |-> Known(HybridPrices, item, HybridPrice(item)),
     originalPriceProperty |-> EmptyStr,
     discountNotes |-> <<>>,
     discount |-> NoDiscount,
     taxLines |-> HybridItemTaxLines(order.taxLines, itemPriceExTax, totalPriceExTax)]

\* buildOrderInputWithOriginalPrice: the order made once the prices without
\* tax and their total are computed
HybridOrderAt(order, prices, totalPriceExTax) ==
    [path |-> "Hybrid",
     lineItems |-> [k \in 1..Len(order.items) |->
                      HybridLineItem(order, order.items[k], prices[k], totalPriceExTax)],
     taxLines |-> <<>>,
     orderDiscount |-> <<>>]

HybridOrderOf(order, prices) == HybridOrderAt(order, prices, SumFrom(prices, 1, FZero))

buildOrderInputWithOriginalPrice(order) == HybridOrderOf(order, ItemPricesOf(order))

\* test_draft_order_tax main: the discount handed to
\* OrderEditAddLineItemDiscount for an item
EditDiscountOf(item) ==
    IF Len(item.discounts) > 0
    THEN IF item.discounts[1].valueType = "percentage"
         THEN <<[valueType |-> "PERCENTAGE",
                 value |-> Float(ParseFloatOrZero(item.discounts[1].value)),
                 title |-> item.discounts[1].title]>>
         ELSE <<[valueType |-> "FIXED_AMOUNT",
                 value |-> Float(parsePrice(item.discounts[1].amount).v),
                 title |-> item.discounts[1].title]>>
    ELSE NoDiscount

EditDiscounts == [item \in AllItemChoices |-> EditDiscountOf(item)]

\* test_draft_order_tax main: the tax line handed to UpdateOrderTaxLinesREST
\* for a tax line in use: rate and price as numbers, 0 for a text that is
\* not a number
RestoredTaxLine(tl) ==
    [title |-> tl.title,
     rate |-> Float(ParseTaxText(tl.rate).v),
     price |-> Float(ParseTaxText(tl.price).v)]

\* the tax lines in use, restored
RestoredOf(used) == [k \in 1..Len(used) |-> RestoredTaxLine(used[k])]

\* test_draft_order_tax main: the tax lines handed to
\* UpdateOrderTaxLinesREST
RestoredTaxLines(taxLines) == RestoredOf(UsedTaxLines(taxLines))

\* AddTaxToOrder: the tax line written on a line item whose lineItemTax is
\* above 0, none otherwise
LineItemTaxLines(taxLinesRest, lineItemTax) ==
    IF lineItemTax.positive /\ Len(taxLinesRest) > 0
    THEN <<[title |-> taxLinesRest[1].title,
            rate |-> taxLinesRest[1].rate,
            price |-> lineItemTax.price]>>
    ELSE <<>>

\* AddTaxToOrder: the tax lines of the line items, from their prices, the
\* total of the prices and the amount of taxLinesRest[0] as parsed
TaxedLineItemsAt(prices, totalPrice, taxLinesRest, totalTax) ==
    [k \in 1..Len(prices) |->
        LineItemTaxLines(taxLinesRest,
            IF FPositive(totalPrice) /\ Len(taxLinesRest) > 0 /\ totalTax.ok
            THEN Known(LineItemTaxes, <<totalTax.v, prices[k], totalPrice>>,
                       LineItemTax(totalTax.v, prices[k], totalPrice))
            ELSE TaxWritten(FZero))]

TaxedLineItems(prices, taxLinesRest) ==
    TaxedLineItemsAt(prices, SumFrom(prices, 1, FZero), taxLinesRest,
                     IF Len(taxLinesRest) > 0 THEN ParseTaxText(taxLinesRest[1].price)
                     ELSE [ok |-> FALSE, v |-> FZero])

\* AddTaxToOrder, second approach: the tax lines written on the line items
\* of the fetched order; only taxLinesRest[0] is distributed
AddTaxToLineItems(lineItems, taxLinesRest) ==
    TaxedLineItems([k \in 1..Len(lineItems) |->
                       Known(LineItemPrices, lineItems[k], LineItemPrice(lineItems[k]))],
                   taxLinesRest)

(***************************************************************************)
(* The commands, from input.json to what they transmit                     *)
(***************************************************************************)
\* create_order main: hasTax
HasTax(order) == Len(order.taxLines) > 0

\* create_order main: hasDiscount; the total discount of an item is compared
\* as a text with "", that of the order with "" and with "0.00"
HasDiscount(order) ==
    \/ \E k \in 1..Len(order.items) :
          Len(order.items[k].discounts) > 0
              \/ order.items[k].totalDiscount # EmptyStr
    \/ order.totalDiscounts # EmptyStr /\ order.totalDiscounts # Num(0)

\* create_order main: the request made for an order by a strategy
RequestBy(strategy, order) ==
    IF strategy = "GraphQL" THEN buildOrderInputForGraphQL(order)
    ELSE IF strategy = "REST"
    THEN CreateOrderWithTaxPayload(buildOrderInputFromInput(order))
    ELSE buildDraftOrderFromInput(order)

\* create_order main: the request made for an order
CreateOrderRequest(order) ==
    RequestBy(Classify(HasTax(order), HasDiscount(order)), order)

\* create_order_using_draft_order main / AddTaxToOrder: a tax line of the
\* order-level update whose rate parses to rate; the rate is a number, left
\* out unless above 0
TaxLineRestOf(tl, rate) ==
    [title |-> tl.title,
     rate |-> IF FPositive(rate) THEN Float(rate) ELSE Absent,
     price |-> tl.price]

\* create_order_using_draft_order main / AddTaxToOrder: the tax lines put
\* in the order-level update
TaxLinesRest(taxLines) ==
    [k \in 1..Len(taxLines) |->
        TaxLineRestOf(taxLines[k], ParseTaxText(taxLines[k].rate).v)]

\* create_order_using_draft_order main: the draft, then the tax update
DraftOrderCmdRequest(order) ==
    [buildDraftOrderFromInput(order) EXCEPT
        !.path = "DraftOrderCmd",
        !.taxLines = TaxLinesRest(order.taxLines)]

\* test_draft_order_tax main: the order at original prices, the discounts
\* of the edit session, the restored tax lines
HybridRequestOf(order, created) ==
    [created EXCEPT
        !.lineItems = [k \in 1..Len(order.items) |->
                         [created.lineItems[k] EXCEPT
                             !.discount = Known(EditDiscounts, order.items[k],
                                                EditDiscountOf(order.items[k]))]],
        !.taxLines = RestoredTaxLines(order.taxLines)]

HybridRequest(order) == HybridRequestOf(order, buildOrderInputWithOriginalPrice(order))

\* AddTaxToOrder when the order-level update left no tax lines: the update
\* of the line items of the fetched order, each with the tax lines written
\* on it
FallbackRequestOf(order, taxed) ==
    [path |-> "AddTaxToOrder",
     lineItems |-> [k \in 1..Len(order.items) |->
                      [quantity |-> order.items[k].quantity,
                       price |-> order.items[k].price,
                       originalPriceProperty |-> EmptyStr,
                       discountNotes |-> <<>>,
                       discount |-> NoDiscount,
                       taxLines |-> taxed[k]]],
     taxLines |-> <<>>,
     orderDiscount |-> <<>>]

AddTaxFallbackRequest(order) ==
    FallbackRequestOf(order,
        AddTaxToLineItems([k \in 1..Len(order.items) |-> Fetched(order.items[k])],
                          TaxLinesRest(order.taxLines)))
(***************************************************************************)
(* The commands as actions                                                 *)
(***************************************************************************)
InitBuild ==
    /\ spec = "build"
    /\ http = NoCall /\ env = ConfigSet /\ unset = NoUnset
    /\ inputData \in Orders
    /\ payload = NoPayload
    /\ lkScript = <<>> /\ lkOut = NoLookup /\ round = 0
    /\ testRun = NoTestRun
    /\ FlowIdle

\* cmd/create_order
CreateOrderMain ==
    /\ spec = "build" /\ payload = NoPayload
    /\ payload' = CreateOrderRequest(inputData)
    /\ UNCHANGED <<spec, env, unset, http, inputData, lookupVars, flowVars>>

\* cmd/create_order_using_draft_order
DraftOrderCmdMain ==
    /\ spec = "build" /\ payload = NoPayload
    /\ payload' = DraftOrderCmdRequest(inputData)
    /\ UNCHANGED <<spec, env, unset, http, inputData, lookupVars, flowVars>>

\* cmd/test_draft_order_tax
HybridMain ==
    /\ spec = "build" /\ payload = NoPayload
    /\ payload' = HybridRequest(inputData)
    /\ UNCHANGED <<spec, env, unset, http, inputData, lookupVars, flowVars>>

NextBuild == CreateOrderMain \/ DraftOrderCmdMain \/ HybridMain

SpecBuild == InitBuild /\ [][NextBuild]_vars

InitTax ==
    /\ spec = "tax"
    /\ http = NoCall /\ env = ConfigSet /\ unset = NoUnset
    /\ inputData \in TaxOrders
    /\ payload = NoPayload
    /\ lkScript = <<>> /\ lkOut = NoLookup /\ round = 0
    /\ testRun = NoTestRun
    /\ FlowIdle

\* test_draft_order_tax: the order is built with per-item tax lines
DistributeHybrid ==
    /\ spec = "tax" /\ payload = NoPayload
    /\ payload' = buildOrderInputWithOriginalPrice(inputData)
    /\ UNCHANGED <<spec, env, unset, http, inputData, lookupVars, flowVars>>

\* AddTaxToOrder: the first tax line is spread over the line items
DistributeFallback ==
    /\ spec = "tax" /\ payload = NoPayload
    /\ payload' = AddTaxFallbackRequest(inputData)
    /\ UNCHANGED <<spec, env, unset, http, inputData, lookupVars, flowVars>>

NextTax == DistributeHybrid \/ DistributeFallback

SpecTax == InitTax /\ [][NextTax]_vars

(***************************************************************************)
(* Properties of the builders                                              *)
(***************************************************************************)
\* the number a field of a payload carries, in units of 1/10000, to the
\* nearest unit
UnitsOf(field) ==
    IF field.k = "float"
    THEN LET n == BigToNat(NearestInteger(field.v, Dollar, FALSE))
         IN IF field.v.neg THEN 0 - n ELSE n
    ELSE field.v

\* the field carries a number below zero
IsNegative(field) ==
    IF field.k = "float" THEN FNegative(field.v) ELSE field.v < 0

\* the field carries the number units / Dollar, to the nearest cent
Near(field, units) == 2 * Abs(UnitsOf(field) - units) <= Cent

\* C6: the discounted price a builder emits for a line item is never
\* negative; discounts that would take it below zero leave it at zero.
C6_DiscountedPriceNeverNegative ==
    \A k \in 1..Len(payload.lineItems) : ~IsNegative(payload.lineItems[k].price)

\* the portions of the j-th distributed tax line, summed over the line items
RECURSIVE PortionSum(_, _, _)
PortionSum(lineItems, j, k) ==
    IF k > Len(lineItems) THEN 0
    ELSE (IF j <= Len(lineItems[k].taxLines)
          THEN lineItems[k].taxLines[j].price.v ELSE 0)
         + PortionSum(lineItems, j, k + 1)

\* some line item received a portion of a tax line
Distributed == \E k \in 1..Len(payload.lineItems) : Len(payload.lineItems[k].taxLines) > 0

\* the tax lines a payload distributes: every used one when the order is
\* built, the first one when tax is added afterwards
DistributedTaxLines ==
    IF payload.path = "Hybrid" THEN UsedTaxLines(inputData.taxLines)
    ELSE IF payload.path = "AddTaxToOrder" /\ inputData.taxLines[1].isUsed
    THEN <<inputData.taxLines[1]>>
    ELSE <<>>

\* C7: for every used tax line distributed over the line items, the sum of
\* the per-item portions is within one cent of the tax line's amount.
C7_PortionsSumWithinOneCent ==
    (payload.path \in {"Hybrid", "AddTaxToOrder"} /\ Distributed) =>
        \A j \in 1..Len(DistributedTaxLines) :
            Abs(PortionSum(payload.lineItems, j, 1)
                - DistributedTaxLines[j].price.v) <= Cent

\* the tax lines of a payload, order level and line-item level, by title
PayloadTaxTitles ==
    {payload.taxLines[j].title : j \in 1..Len(payload.taxLines)}
    \cup UNION {{payload.lineItems[k].taxLines[j].title :
                    j \in 1..Len(payload.lineItems[k].taxLines)} :
                k \in 1..Len(payload.lineItems)}

UnusedTaxTitles ==
    {inputData.taxLines[j].title :
        j \in {i \in 1..Len(inputData.taxLines) : ~inputData.taxLines[i].isUsed}}

\* C8: no tax line marked unused appears in a transmitted payload.
C8_NoUnusedTaxLineTransmitted ==
    payload.path # "none" => PayloadTaxTitles \cap UnusedTaxTitles = {}

\* a discount is present at order level or at item level
DiscountPresent ==
    \/ Len(inputData.discounts) > 0
    \/ \E k \in 1..Len(inputData.items) : Len(inputData.items[k].discounts) > 0

\* C9: an order with at least one tax line and at least one discount, at
\* order level or item level, is created by the GraphQL strategy.
C9_TaxAndDiscountUseGraphQL ==
    (payload.path \in {"GraphQL", "REST", "DraftOrderFlow"}
        /\ Len(inputData.taxLines) > 0 /\ DiscountPresent)
    => payload.path = "GraphQL"

\* the order without its discounts of metadata title
WithoutMetadataDiscounts(order) ==
    [order EXCEPT
        !.items = [k \in 1..Len(order.items) |->
                     [order.items[k] EXCEPT
                         !.discounts = SelectSeq(order.items[k].discounts,
                             LAMBDA d : ~IsMetadataTitle(d.title))]]]

\* the request a command makes for an order, by the path of the payload
RequestOf(path, order) ==
    IF path = "DraftOrderCmd" THEN DraftOrderCmdRequest(order)
    ELSE IF path = "Hybrid" THEN HybridRequest(order)
    ELSE CreateOrderRequest(order)

\* C10: a discount whose title holds a metadata marker changes no price
\* sent, produces no discount annotation and is not transmitted as an
\* applied discount, whichever command builds the payload.
C10_MetadataDiscountSkipped ==
    payload.path # "none" =>
        \A k \in 1..Len(payload.lineItems) :
            LET li == payload.lineItems[k]
                clean == RequestOf(payload.path, WithoutMetadataDiscounts(inputData))
            IN /\ \A j \in 1..Len(li.discount) : ~IsMetadataTitle(li.discount[j].title)
               /\ \A j \in 1..Len(li.discountNotes) :
                      ~IsMetadataTitle(li.discountNotes[j].title)
               /\ (\E j \in 1..Len(inputData.items[k].discounts) :
                      IsMetadataTitle(inputData.items[k].discounts[j].title))
                  => (clean.path = payload.path
                        => li.price = clean.lineItems[k].price)

\* one order-level discount of the type and title is sent
SentAs(sent, valueType, title) ==
    Len(sent) = 1 /\ sent[1].valueType = valueType /\ sent[1].title = title

\* the discount sent is the first explicit application of the order read
IsFirstApplication(sent) ==
    LET d == inputData.discounts[1] IN
    IF d.valueType = "percentage"
    THEN SentAs(sent, "PERCENTAGE", d.title) /\ Near(sent[1].value, d.value.v)
    ELSE SentAs(sent, "FIXED_AMOUNT", d.title) /\ Near(sent[1].value, d.amount.v)

\* the discount sent is a percentage of two decimals, within half a
\* hundredth of total discount / subtotal * 100
IsDerivedPercentage(sent) ==
    /\ SentAs(sent, "PERCENTAGE", <<"Order Discount">>)
    /\ sent[1].value.k = "float"
    /\ LET hundredths == UnitsOf(sent[1].value) \div Cent
           whole == inputData.totalDiscounts.v % Cent = 0
                       /\ inputData.subtotalPrice.v % Cent = 0
           part == IF whole THEN inputData.totalDiscounts.v \div Cent
                   ELSE inputData.totalDiscounts.v
           of == IF whole THEN inputData.subtotalPrice.v \div Cent
                 ELSE inputData.subtotalPrice.v
       IN /\ sent[1].value.v = FOfDecimal(hundredths * Cent)
          /\ 2 * Abs(hundredths * of - part * Dollar) <= of

\* the discount sent is the total discount as a fixed amount
IsTotalAsFixed(sent) ==
    /\ SentAs(sent, "FIXED_AMOUNT", <<"Order Discount">>)
    /\ Near(sent[1].value, inputData.totalDiscounts.v)

\* the discount sent is the one the priority rule gives for the order read:
\* the first explicit application; else a percentage of the subtotal when a
\* total discount and a subtotal above zero are given; else the total
\* discount as a fixed amount; else none
FollowsPriority(sent) ==
    IF Len(inputData.discounts) > 0 THEN IsFirstApplication(sent)
    ELSE IF IsNumber(inputData.totalDiscounts) /\ IsNumber(inputData.subtotalPrice)
            /\ inputData.subtotalPrice.v > 0
    THEN IsDerivedPercentage(sent)
    ELSE IF IsNumber(inputData.totalDiscounts) THEN IsTotalAsFixed(sent)
    ELSE sent = <<>>

\* C11: in every build path that sends an order-level discount, the
\* discount is the first explicit order-level application if there is one,
\* else the total discount as a percentage of the subtotal (2 decimals)
\* when both are given, else the total discount as a fixed amount.
C11_OrderDiscountByPriority ==
    payload.path \in {"DraftOrderFlow", "DraftOrderCmd", "GraphQL"} =>
        FollowsPriority(payload.orderDiscount)

\* the unit price of an item by the rule: the explicit price when one is
\* given, the origin price when only that is given
ResolvedUnitPrice(item) ==
    IF IsNumber(item.price) THEN item.price.v ELSE item.originPrice.v

\* the unit price a payload line was built from: the price sent, or, where
\* the price sent is the discounted one, the price the discounts started from
UnitPriceUsed(k) ==
    IF payload.path = "GraphQL"
    THEN Float(GraphQLOriginalPrice(inputData.items[k]))
    ELSE payload.lineItems[k].price

\* C12: every line-item builder takes as unit price the explicit price when
\* one is given, and the origin price only when no explicit price is given.
C12_UnitPriceResolvedAlike ==
    payload.path # "none" =>
        \A k \in 1..Len(payload.lineItems) :
            (IsNumber(inputData.items[k].price)
                \/ IsNumber(inputData.items[k].originPrice))
            => Near(UnitPriceUsed(k), ResolvedUnitPrice(inputData.items[k]))

(***************************************************************************)
(* Properties of the call sequences                                        *)
(***************************************************************************)
IsPrefix(s, t) == Len(s) <= Len(t) /\ \A i \in 1..Len(s) : s[i] = t[i]

\* a call named a occurs in the calls sent, and before every call named b
Precedes(a, b) ==
    \A i \in 1..Len(calls) :
        calls[i] = b => \E j \in 1..(i - 1) : calls[j] = a

\* C13: in the hybrid strategy the order is created first, then the edit
\* session is begun, then the discounts are added, then the edit is
\* committed, and the tax lines are restored only after the commit.
C13_HybridOrderCommitBeforeRestore ==
    flow = "HybridCmd" =>
        /\ Precedes("orderCreate", "orderEditBegin")
        /\ Precedes("orderEditBegin", "orderEditAddLineItemDiscount")
        /\ Precedes("orderEditAddLineItemDiscount", "orderEditCommit")
              \/ Count("orderEditAddLineItemDiscount") = 0
        /\ Precedes("orderEditBegin", "orderEditCommit")
        /\ Precedes("orderEditCommit", "taxRestore")

\* every discount listed on a line item of the input: <<item, position>>
ListedDiscounts ==
    {<<j, d>> : j \in 1..Len(inp.itemDiscounts), d \in 1..MaxDiscounts}
        \ {<<j, d>> \in (1..Len(inp.itemDiscounts)) \X (1..MaxDiscounts) :
                d > inp.itemDiscounts[j]}

\* the discounts sent through the edit session so far
AppliedDiscounts == {applied[i] : i \in 1..Len(applied)}

\* C14: when the hybrid command commits the edit session, every discount
\* listed on every line item has been sent through the session: none is
\* left unapplied.
C14_EveryItemDiscountApplied ==
    (flow = "HybridCmd" /\ Count("orderEditCommit") > 0)
        => ListedDiscounts \subseteq AppliedDiscounts

\* C15: in the draft-order flow with a note requested, the fulfillment
\* lookup is never issued before the note-attachment step.
C15_NoteBeforeFulfillmentLookup ==
    (flow = "DraftOrderCmd" /\ inp.note)
        => Precedes("metafieldCreate", "fulfillmentOrders")

\* C15 (amended): the draft is created, then completed, then the order id is
\* resolved, then the fulfillment orders are looked up, and the note is
\* attached only after the lookup; no lookup follows the note.
C15_FulfillmentLookupBeforeNote ==
    flow \in DraftFlows =>
        /\ Precedes("draftOrderCreate", "draftOrderComplete")
        /\ Precedes("draftOrderComplete", "draftOrderLookup")
        /\ Precedes("draftOrderLookup", "fulfillmentOrders")
        /\ Precedes("fulfillmentOrders", "metafieldCreate")
        /\ \A i, j \in 1..Len(calls) :
              (calls[i] = "metafieldCreate" /\ calls[j] = "fulfillmentOrders")
                  => j < i

\* a run of the draft-order command that resolved the order, looked the
\* fulfillment orders up more than once and then attached the note
C15_Witness ==
    /\ flow = "DraftOrderCmd" /\ pc = "done" /\ result = "ok"
    /\ Count("fulfillmentOrders") > 1
    /\ Count("metafieldCreate") = 1

MaxTicks == 6

Seconds(k) == k * 10

\* the functions that build an http.Client and send a request with it
TimedCallSites ==
    {"callAdminGraphQL", "AddTaxToOrder", "MarkOrderAsPaid", "CreateOrderWithTax",
     "CreateOrder", "CreateOrderGraphQL", "CreateDraftOrderREST",
     "findOrderByNumber", "listOrderTransactions", "postOrderPayload",
     "addCustomTaxLineItemToDraftOrder"}
UntimedCallSites ==
    {"deleteShippingNoteMetafield", "createTransactionViaREST",
     "checkFulfillmentOrdersREST"}
CallSites == TimedCallSites \cup UntimedCallSites

\* http.Client.Timeout of the client built at the site, in seconds; a client
\* built as &http.Client{} has Timeout zero, which means no timeout
ClientTimeout(site) ==
    IF site \in UntimedCallSites THEN 0 ELSE Seconds(3)

\* the remote never answers
Never == 0 - 1
AnswerTimes == {Seconds(k) : k \in 0..MaxTicks} \cup {Never}

\* client.Do gives up once the timeout has elapsed, if there is one
Expired(h) == h.timeout > 0 /\ h.elapsed >= h.timeout

InitClients ==
    /\ spec = "clients"
    /\ http = NoCall /\ env \in Environments /\ unset = NoUnset
    /\ lkScript = <<>> /\ lkOut = NoLookup /\ round = 0
    /\ testRun = NoTestRun
    /\ FlowIdle
    /\ BuildIdle

\* client.Do(req) is called at a site; the remote will answer at some time
\* or never
HttpDo ==
    /\ spec = "clients" /\ http.state = "idle"
    /\ ~MissingConfig(env)
    /\ \E site \in CallSites, t \in AnswerTimes :
        http' = [site |-> site, state |-> "waiting",
                 timeout |-> ClientTimeout(site), elapsed |-> 0, answerAt |-> t]
    /\ UNCHANGED <<spec, env, unset, lookupVars, flowVars, buildVars>>

\* the caller stays blocked in client.Do for another 10 seconds
HttpWait ==
    /\ spec = "clients" /\ http.state = "waiting"
    /\ http.elapsed # http.answerAt /\ ~Expired(http)
    /\ http.elapsed < Seconds(MaxTicks)
    /\ http' = [http EXCEPT !.elapsed = @ + Seconds(1)]
    /\ UNCHANGED <<spec, env, unset, lookupVars, flowVars, buildVars>>

\* the answer arrives and client.Do returns it
HttpAnswer ==
    /\ spec = "clients" /\ http.state = "waiting"
    /\ http.elapsed = http.answerAt
    /\ http.timeout > 0 => http.elapsed <= http.timeout
    /\ http' = [http EXCEPT !.state = "answered"]
    /\ UNCHANGED <<spec, env, unset, lookupVars, flowVars, buildVars>>

\* the timeout elapses and client.Do returns an error
HttpTimeout ==
    /\ spec = "clients" /\ http.state = "waiting"
    /\ Expired(http)
    /\ http' = [http EXCEPT !.state = "timedout"]
    /\ UNCHANGED <<spec, env, unset, lookupVars, flowVars, buildVars>>

\* the function at a site finds a variable missing and returns (or the
\* command ends with) "SHOPIFY_SHOP_DOMAIN and SHOPIFY_API_SECRET must be
\* set"; no request is built
HttpConfigError ==
    /\ spec = "clients" /\ http.state = "idle"
    /\ MissingConfig(env)
    /\ \E site \in CallSites :
        http' = [NoCall EXCEPT !.site = site, !.state = "configError"]
    /\ UNCHANGED <<spec, env, unset, lookupVars, flowVars, buildVars>>

NextClients == HttpDo \/ HttpWait \/ HttpAnswer \/ HttpTimeout \/ HttpConfigError

SpecClients == InitClients /\ [][NextClients]_vars

\* C17: every outbound call is made through a client with a 30-second
\* timeout, so no caller is still blocked in a call after 30 seconds.
C17_EveryCallBoundedBy30Seconds ==
    http.state \in {"waiting", "answered", "timedout"} =>
        /\ http.timeout = Seconds(3)
        /\ http.elapsed <= Seconds(3)

(***************************************************************************)
(* Properties of the retry loop                                            *)
(***************************************************************************)
\* every query of the lookup that ran on lkScript failed
AllAttemptsFail ==
    \A k \in 1..DefaultMaxRetries : getFulfillmentOrdersOnce(lkScript[k]).err

\* C18: a fulfillment-order lookup, made by one call of GetFulfillmentOrders
\* or by one run of the test command, makes at most 5 attempts in total; it
\* waits once between two attempts, the first wait being the initial delay
\* and each later wait 1.5 times the one before; no wait follows the last
\* attempt; and after 5 failed attempts it ends with an error, which it does
\* in no other case.
C18_BoundedRetryWithBackoff ==
    /\ testRun.queries <= DefaultMaxRetries
    /\ testRun.slept = 0
    /\ testRun.ended = "notfound" => ~lkOut.err
    /\ lkOut.done =>
          /\ lkOut.attempts \in 1..DefaultMaxRetries
          /\ Len(lkOut.waits) = lkOut.attempts - 1
          /\ Len(lkOut.waits) > 0 => lkOut.waits[1] = DefaultInitialDelay
          /\ \A k \in 1..(Len(lkOut.waits) - 1) :
                2 * lkOut.waits[k + 1] = 3 * lkOut.waits[k]
          /\ AllAttemptsFail => (lkOut.err /\ lkOut.attempts = DefaultMaxRetries)
          /\ lkOut.err => (AllAttemptsFail /\ lkOut.attempts = DefaultMaxRetries)

(***************************************************************************)
(* Properties of the answers that lack a field                             *)
(***************************************************************************)
\* answers to the draft's order lookup that lack data, node, order or its id
MissingLinkKinds == {"nodata", "nonode", "noorder", "emptyid"}

C20_CallerInputUnchanged ==
    flow \in LibraryFlows => callerLineItems = inp.itemTaxLines

(***************************************************************************)
(* Properties of the classification                                        *)
(***************************************************************************)
\* a discount total that is absent or is the number zero
NoAmount(str) == str.k = "empty" \/ (IsNumber(str) /\ str.v = 0)

\* the order carries no discount: no application at order or item level, and
\* no discount total other than zero
NoDiscountAtAll ==
    /\ ~DiscountPresent
    /\ NoAmount(inputData.totalDiscounts)
    /\ \A k \in 1..Len(inputData.items) : NoAmount(inputData.items[k].totalDiscount)

\* C21: an order with at least one tax line and no discount is created by
\* the REST strategy.
C21_TaxOnlyUsesREST ==
    (payload.path \in {"GraphQL", "REST", "DraftOrderFlow"}
        /\ Len(inputData.taxLines) > 0 /\ NoDiscountAtAll)
    => payload.path = "REST"

\* C22: an order without tax lines is created by the draft-order flow,
\* whether or not it carries discounts.
C22_NoTaxUsesDraftFlow ==
    (payload.path \in {"GraphQL", "REST", "DraftOrderFlow"}
        /\ Len(inputData.taxLines) = 0)
    => payload.path = "DraftOrderFlow"

\* an item of 100.00 with a 20 % discount and no tax line went to the
\* draft-order flow, the discount sent as an applied percentage of 20
C22_Witness ==
    /\ payload.path = "DraftOrderFlow"
    /\ Len(inputData.taxLines) = 0
    /\ inputData.items[1].price = Money(100)
    /\ inputData.items[1].discounts = <<Sale20>>
    /\ payload.lineItems[1].discount =
          <<[valueType |-> "PERCENTAGE", value |-> Float(FOfInt(20)),
             title |-> Sale20.title]>>

\* a tax line is present in the order, a discount is present in the order
TaxPresentIn(order) == Len(order.taxLines) > 0
DiscountPresentIn(order) ==
    \/ Len(order.discounts) > 0
    \/ \E k \in 1..Len(order.items) : Len(order.items[k].discounts) > 0

\* the strategies create_order follows for the orders of one combination of
\* tax present or absent and discount present or absent
StrategiesOf ==
    [c \in BOOLEAN \X BOOLEAN |->
        {Classify(HasTax(order), HasDiscount(order)) :
            order \in {o \in Orders : /\ TaxPresentIn(o) = c[1]
                                      /\ DiscountPresentIn(o) = c[2]}}]

\* C23: the classification is total and deterministic: each combination of
\* tax present or absent and discount present or absent has exactly one
\* strategy, the one create_order follows for every order of that
\* combination, so the same draft is always classified the same way.
C23_ClassificationTotalAndDeterministic ==
    payload.path \in {"GraphQL", "REST", "DraftOrderFlow"} =>
        StrategiesOf[<<TaxPresentIn(inputData), DiscountPresentIn(inputData)>>]
            = {payload.path}

(***************************************************************************)
(* Properties of the successive line-item discounts                        *)
(***************************************************************************)
\* the amount one discount takes off a base price
DiscountAmount(d, base) ==
    IF IsMetadataTitle(d.title) THEN FZero
    ELSE IF d.valueType = "percentage"
    THEN FDiv(FMul(base, ParseFloatOrZero(d.value)), FOfInt(100))
    ELSE IF d.valueType = "fixed_amount" THEN parsePrice(d.amount).v
    ELSE FZero

\* the amounts of the discounts ds in turn, the first against base, each
\* later one against what the earlier ones left
RECURSIVE SuccessiveAmounts(_, _)
SuccessiveAmounts(ds, base) ==
    IF ds = <<>> THEN <<>>
    ELSE LET a == DiscountAmount(Head(ds), base) IN
         <<a>> \o SuccessiveAmounts(Tail(ds), FSub(base, a))

\* the original price of an item minus the sum of the successive amounts of
\* its discounts, as the text of a price
SuccessivePrice(item) ==
    LET originalPrice == GraphQLOriginalPrice(item) IN
    Sprintf2(FSub(originalPrice,
                  SumFrom(SuccessiveAmounts(item.discounts, originalPrice), 1, FZero)))

SuccessivePrices == [item \in AllItemChoices |-> SuccessivePrice(item)]

\* C24: the discounts of a line item are applied one after the other, each
\* amount computed against the price the earlier discounts left, never
\* against the original price; the price sent is the original price minus
\* the sum of these successive amounts.
C24_DiscountsAppliedSequentially ==
    (payload.path = "GraphQL" /\ Len(inputData.items[1].discounts) > 0)
    => payload.lineItems[1].price
          = Known(SuccessivePrices, inputData.items[1],
                  SuccessivePrice(inputData.items[1]))

\* 100.00 with 20 % off twice is sent as 64.00, not as 60.00
C24_Witness ==
    /\ payload.path = "GraphQL"
    /\ inputData.items[1].price = Money(100)
    /\ inputData.items[1].discounts = <<Sale20, Sale20>>
    /\ payload.lineItems[1].price = Money(64)

(***************************************************************************)
(* Properties of the tax distribution                                      *)
(***************************************************************************)
\* C25: when the prices without tax of the line items, times their
\* quantities, add up to zero, the distribution gives no line item any
\* portion of a tax line (and divides by nothing: the quotient by the
\* total is taken under the guard total > 0 only).
C25_ZeroTotalDistributesNothing ==
    (payload.path \in {"Hybrid", "AddTaxToOrder"} /\ FIsZero(TotalPriceExTax(inputData)))
    => \A k \in 1..Len(payload.lineItems) : payload.lineItems[k].taxLines = <<>>

C25_Witness ==
    /\ payload.path = "Hybrid"
    /\ FIsZero(TotalPriceExTax(inputData))
    /\ Len(inputData.items) >= 2
    /\ UsedTaxLines(inputData.taxLines) # <<>>
    /\ \A k \in 1..Len(payload.lineItems) : payload.lineItems[k].taxLines = <<>>

(***************************************************************************)
(* Properties of the configuration check                                   *)
(***************************************************************************)
\* C26: when the shop domain or the access token is missing from the
\* environment, a call site ends with the configuration error and no
\* request is sent.
C26_MissingConfigSendsNothing ==
    (~env.shopDomain \/ ~env.accessToken)
    => http.state \in {"idle", "configError"}

\* the access token alone is missing and AddTaxToOrder has returned the
\* configuration error
C26_Witness ==
    /\ env.shopDomain /\ ~env.accessToken
    /\ http.site = "AddTaxToOrder" /\ http.state = "configError"

(***************************************************************************)
(* Properties of the completion of a draft                                 *)
(***************************************************************************)
\* C27: whenever CompleteDraftOrder returns without error, the order
\* information it returns carries a non-empty order id.
C27_CompletionCarriesOrderID ==
    linked # "none" => orderID # ""

\* C27 (amended): whenever CompleteDraftOrder returns without error, the
\* order information carries a non-empty order id exactly when the lookup
\* of the draft's order succeeded and named an order; when that lookup
\* failed, or its answer lacked the order or the order's id, the order id
\* returned is empty.
C27_OrderIDOnlyWhenLookupSucceeds ==
    linked # "none" => (orderID # "" <=> linked = "ok")

\* the lookup after a completion met a transport failure, and the flow went
\* on to its end with an empty order id
C27_Witness ==
    /\ linked = "transport" /\ "draftOrderLookup" \in failures
    /\ orderID = "" /\ pc = "done" /\ result # "err"

(***************************************************************************)
(* Properties of CreateOrderFromDraftWithTax                               *)
(***************************************************************************)
\* C28: in CreateOrderFromDraftWithTax, whenever tax lines are supplied,
\* the draft is completed with payment pending, the tax update is sent
\* while the order is still unpaid (completed as pending and no
\* mark-as-paid sent before it), and mark-as-paid is sent only after the
\* tax update.
C28_TaxAddedBeforePayment ==
    (flow = "CreateOrderFromDraftWithTax" /\ inp.nTax > 0) =>
        /\ Count("draftOrderComplete") > 0 => completeArg = "pending"
        /\ \A k \in 1..Len(calls) :
              calls[k] = "orderTaxUpdate" =>
                  /\ completeArg = "pending"
                  /\ \A j \in 1..k : calls[j] # "markAsPaid"
        /\ \A k \in 1..Len(calls) :
              calls[k] = "markAsPaid" =>
                  \E j \in 1..k : calls[j] = "orderTaxUpdate"

(***************************************************************************)
(* Properties of the line-item fallback of AddTaxToOrder                   *)
(***************************************************************************)
\* C29: when the order-level update was not accepted and the tax is put on
\* the line items instead, every tax line supplied to AddTaxToOrder is
\* distributed over the line items, not only the first one.
C29_FallbackDistributesEveryTaxLine ==
    (payload.path = "AddTaxToOrder" /\ FPositive(TotalPriceExTax(inputData)))
    => \A j \in 1..Len(inputData.taxLines) :
          FPositive(ParseFloatOrZero(inputData.taxLines[j].price))
          => \E k \in 1..Len(payload.lineItems) :
                \E t \in 1..Len(payload.lineItems[k].taxLines) :
                    payload.lineItems[k].taxLines[t].title
                        = inputData.taxLines[j].title

(***************************************************************************)
(* cmd/unsetDefaultAddressById                                             *)
(***************************************************************************)
\* An address is known by the number at the end of its id; a customer of
\* the shop is its list of addresses and its default address (0: none);
\* the id of a customer is its position in the shop's list of customers.
ElementsOf(seq) == {seq[k] : k \in 1..Len(seq)}

AddressLists(ids) ==
    {a \in UNION {[1..n -> ids] : n \in 1..MaxAddresses} :
        \A i, j \in 1..Len(a) : i # j => a[i] # a[j]}

CustomersOver(ids) ==
    UNION {{[addresses |-> a, default |-> d] : d \in {0} \cup ElementsOf(a)} :
              a \in AddressLists(ids)}

NoAddresses == [addresses |-> <<>>, default |-> 0]

\* shops of 2 and of 51 customers: customers without addresses, then two
\* customers with addresses
Shops ==
    {[k \in 1..n |-> NoAddresses] \o <<c1, c2>> :
        n \in {0, SearchPageSize - 1},
        c1 \in CustomersOver(1..MaxAddresses),
        c2 \in CustomersOver((MaxAddresses + 1)..(2 * MaxAddresses))}

\* the command's argument: a bare number or a gid, of an address of the
\* shop or of none
GivenAddresses ==
    [form : {"numeric", "gid"}, num : 1..(2 * MaxAddresses + 1)]

\* normalizeAddressID: a gid is kept, a number is wrapped into
\* gid://shopify/MailingAddress/<number>?model_name=CustomerAddress
normalizeAddressID(a) == [form |-> "gid", num |-> a.num]

\* extractNumericID: the last path element, without the query part
extractNumericID(gid) == gid.num

\* findCustomerFromAddress: the first customer, among the first 50 the
\* search returns, one of whose addresses has the number; 0 when there is
\* none (an error)
findCustomerFromAddress(shop, addressGID) ==
    LET last == IF Len(shop) < SearchPageSize THEN Len(shop) ELSE SearchPageSize
        hits == {k \in 1..last :
                    extractNumericID(addressGID) \in ElementsOf(shop[k].addresses)}
    IN IF hits = {} THEN 0 ELSE CHOOSE k \in hits : \A h \in hits : k <= h

\* checkIfDefaultAddress: the customer has a default address and it has
\* the number of the given one
checkIfDefaultAddress(customer, addressGID) ==
    customer.default # 0 /\ customer.default = extractNumericID(addressGID)

\* main: the first address of the list whose number differs, 0 if none
OtherAddress(addresses, addressGID) ==
    LET others == {k \in 1..Len(addresses) :
                      addresses[k] # extractNumericID(addressGID)}
    IN IF others = {} THEN 0
       ELSE addresses[CHOOSE k \in others : \A h \in others : k <= h]

\* what CallAdminGraphQL can give a query of the command: an answer, a
\* failure, or an answer without the data object
QueryKinds == {"ok", "transport", "status", "gqlerrors", "nodata"}
QueryFails(kind) == callAdminGraphQLFails(kind) \/ kind = "nodata"

InitAddress ==
    /\ spec = "address"
    /\ http = NoCall /\ env = ConfigSet
    /\ \E shop \in Shops, given \in GivenAddresses :
        unset = [NoUnset EXCEPT !.pc = "findCustomer", !.given = given,
                                !.shop = shop, !.was = shop,
                                !.result = "running"]
    /\ lkScript = <<>> /\ lkOut = NoLookup /\ round = 0
    /\ testRun = NoTestRun
    /\ FlowIdle
    /\ BuildIdle

Fatal == [unset EXCEPT !.pc = "done", !.result = "fatal"]

\* main: findCustomerFromAddress(normalizeAddressID(os.Args[1]))
FindCustomer ==
    /\ spec = "address" /\ unset.pc = "findCustomer"
    /\ \E kind \in QueryKinds :
        LET customerID ==
                findCustomerFromAddress(unset.shop, normalizeAddressID(unset.given))
        IN unset' = IF QueryFails(kind) \/ customerID = 0 THEN Fatal
                    ELSE [unset EXCEPT !.pc = "checkDefault",
                                       !.customerID = customerID]
    /\ UNCHANGED <<spec, env, http, lookupVars, flowVars, buildVars>>

\* main: checkIfDefaultAddress; an address that is not the default ends
\* the command
CheckDefault ==
    /\ spec = "address" /\ unset.pc = "checkDefault"
    /\ \E kind \in QueryKinds :
        unset' = IF QueryFails(kind) THEN Fatal
                 ELSE IF ~checkIfDefaultAddress(unset.shop[unset.customerID],
                                                normalizeAddressID(unset.given))
                 THEN [unset EXCEPT !.pc = "done", !.result = "notDefault"]
                 ELSE [unset EXCEPT !.pc = "getAddresses"]
    /\ UNCHANGED <<spec, env, http, lookupVars, flowVars, buildVars>>

\* main: getCustomerAddresses, then the choice of another address; a single
\* address, or no other address, ends the command
GetAddresses ==
    /\ spec = "address" /\ unset.pc = "getAddresses"
    /\ \E kind \in QueryKinds :
        LET addresses == unset.shop[unset.customerID].addresses
            otherAddressID ==
                OtherAddress(addresses, normalizeAddressID(unset.given))
        IN unset' = IF QueryFails(kind) THEN Fatal
                    ELSE IF Len(addresses) = 1
                    THEN [unset EXCEPT !.pc = "done", !.result = "onlyAddress"]
                    ELSE IF otherAddressID = 0
                    THEN [unset EXCEPT !.pc = "done", !.result = "noOther"]
                    ELSE [unset EXCEPT !.pc = "setDefault",
                                       !.other = otherAddressID]
    /\ UNCHANGED <<spec, env, http, lookupVars, flowVars, buildVars>>

\* setDefaultAddress: the customerUpdateDefaultAddress mutation; accepted,
\* it makes the other address the customer's default
SetDefault ==
    /\ spec = "address" /\ unset.pc = "setDefault"
    /\ \E kind \in QueryKinds \cup {"userErrors"} :
        unset' = [unset EXCEPT
                    !.pc = "done",
                    !.result = IF kind = "ok" THEN "ok" ELSE "fatal",
                    !.mutations = Append(@, [customerId |-> unset.customerID,
                                             addressId |-> unset.other,
                                             kind |-> kind]),
                    !.shop = IF kind = "ok"
                             THEN [@ EXCEPT ![unset.customerID].default = unset.other]
                             ELSE @]
    /\ UNCHANGED <<spec, env, http, lookupVars, flowVars, buildVars>>

NextAddress == FindCustomer \/ CheckDefault \/ GetAddresses \/ SetDefault

SpecAddress == InitAddress /\ [][NextAddress]_vars

\* the customers of the shop, before the command ran, that have the given
\* address
OwnersOfGiven ==
    {c \in 1..Len(unset.was) : unset.given.num \in ElementsOf(unset.was[c].addresses)}

\* the given address is not the default of its customer, or is the only
\* address of its customer
NotDefaultOrOnlyAddress ==
    \A c \in OwnersOfGiven :
        \/ unset.was[c].default # unset.given.num
        \/ Len(unset.was[c].addresses) = 1

\* C30: the command issues no mutation when the given address is not the
\* default of its customer or is that customer's only address; otherwise it
\* issues exactly one set-default mutation, for the customer of the given
\* address and for another of that customer's addresses.
C30_OneMutationExactlyWhenDefaultAndNotOnly ==
    unset.pc = "done" =>
        IF NotDefaultOrOnlyAddress
        THEN unset.mutations = <<>>
        ELSE /\ Len(unset.mutations) = 1
             /\ unset.mutations[1].customerId \in OwnersOfGiven
             /\ unset.mutations[1].addressId
                   \in ElementsOf(unset.was[unset.mutations[1].customerId].addresses)
                         \ {unset.given.num}
====
